---- MODULE Spec2Model ----
(***************************************************************************)
(* A model of the Mini-PL interpreter: the tokenizer (src/src/lexer.rs),   *)
(* the recursive-descent parser (src/src/parser.rs), the pipeline          *)
(* (src/src/main.rs, interpret) and the tree-walking evaluator             *)
(* (src/src/evaluator.rs).                                                 *)
(*                                                                         *)
(* Text is a sequence of one-character strings.  Enum values of the Rust   *)
(* code are tuples whose first element is the variant's name:              *)
(*   Value       <<"Integer", 3>>  <<"Bool", TRUE>>  <<"String", <<"a">>>> *)
(*   Option      <<"None">>  <<"Some", v>>                                 *)
(*   Result      <<"Ok", v>> <<"Err", e>>; a panic of the host process is  *)
(*               <<"Panic">>                                               *)
(*   Expression  <<"Identifier", id>> <<"IntegerConstant", n>>             *)
(*               <<"StringValue", s>> <<"Boolean", b>>                     *)
(*               <<"Unary", op, e>> <<"Binary", l, op, r>>                 *)
(*   Statement   <<"VarInitialization", id, type>>                         *)
(*               <<"NewAssignment", id, type, e>> <<"Assignment", id, e>>  *)
(*               <<"Print", e>> <<"Assert", e>> <<"Read", id>>             *)
(*               <<"For", id, e1, e2, stmts>>                              *)
(*                                                                         *)
(* Three specifications: Spec, the evaluator on Programs; SpecInterpret,   *)
(* interpret on Files; SpecLexer, get_next_token on LexerSources.          *)
(***************************************************************************)
EXTENDS Integers, Sequences, FiniteSets, TLC

VARIABLES
    file,          \* interpret's argument: the source text
    parser,        \* the Parser (with the Lexer it owns), see ParserNew
    errors,        \* Parser.errors
    pc,            \* where interpret is: "parse", "interpret", "evaluate", "exit"
    program,       \* Evaluator.program (the parsed statements)
    global_scope,  \* Evaluator.global_scope: name -> <<Type, Option<Value>>>
    stack,         \* the active loops: evaluate_program's, then each evaluate_for's
    stdout,        \* what has been written to standard output
    result,        \* <<"Running">>, or what evaluate_program / interpret returned
    executed,      \* the number of evaluate_statement calls made so far
    last,          \* what the last evaluate_statement call to return returned
    tokenizer,     \* the Lexer get_next_token is called on directly (SpecLexer)
    tokens         \* the tokens those get_next_token calls returned, in order

vars ==
    <<file, parser, errors, pc, program, global_scope, stack, stdout, result,
      executed, last, tokenizer, tokens>>

(***************************************************************************)
(* Bounds of the model.                                                    *)
(***************************************************************************)
MaxProgramLen == 2
MaxRange == 3
MaxFileStmts == 4
MaxCalls == 8

(***************************************************************************)
(* Characters.                                                             *)
(***************************************************************************)
DigitChar == <<"0", "1", "2", "3", "4", "5", "6", "7", "8", "9">>

Digit == {DigitChar[k] : k \in 1..10}

Whitespace == {" ", "\t", "\n"}

Alphabetic ==
    {"a", "b", "c", "d", "e", "f", "g", "h", "i", "j", "k", "l", "m", "n", "o",
     "p", "q", "r", "s", "t", "u", "v", "w", "x", "y", "z", "A", "F", "X", "Y", "Z"}

\* The characters of the model in byte order: only the order matters to the
\* comparisons of str1 < str2.
ByteOrder ==
    <<"\t", "\n", " ", "!", "\"", "&", "(", ")", "*", "+", ",", "-", ".", "/",
      "0", "1", "2", "3", "4", "5", "6", "7", "8", "9", ":", ";", "<", "=", ">",
      "A", "F", "X", "Y", "Z", "\\", "_",
      "a", "b", "c", "d", "e", "f", "g", "h", "i", "j", "k", "l", "m", "n", "o",
      "p", "q", "r", "s", "t", "u", "v", "w", "x", "y", "z">>

Byte(c) == CHOOSE k \in 1..Len(ByteOrder) : ByteOrder[k] = c

DigitValue(c) == (CHOOSE k \in 1..10 : DigitChar[k] = c) - 1

I32Max == 2147483647
I32Min == -I32Max - 1

InI32(n) == I32Min <= n /\ n <= I32Max

\* The digits of s accumulated onto acc as str::parse::<i32> does, with
\* checked arithmetic, downward for a negative number: <<"Ok", n>>, or
\* <<"Err">> when n is outside i32.
RECURSIVE CheckedDigits(_, _, _)
CheckedDigits(s, acc, negative) ==
    IF s = <<>> THEN <<"Ok", acc>>
    ELSE IF negative
    THEN IF -acc > (IF DigitValue(Head(s)) = 0 THEN I32Max \div 10
                    ELSE (I32Max - (DigitValue(Head(s)) - 1)) \div 10)
         THEN <<"Err">>
         ELSE CheckedDigits(Tail(s), acc * 10 - DigitValue(Head(s)), negative)
    ELSE IF acc > (I32Max - DigitValue(Head(s))) \div 10
         THEN <<"Err">>
         ELSE CheckedDigits(Tail(s), acc * 10 + DigitValue(Head(s)), negative)

\* str::parse::<i32>: an optional sign, then one or more digits, within i32.
ParseI32(s) ==
    LET signed == s # <<>> /\ s[1] \in {"+", "-"}
        digits == IF signed THEN Tail(s) ELSE s
    IN  IF digits = <<>> \/ \E k \in 1..Len(digits) : digits[k] \notin Digit
        THEN <<"Err">>
        ELSE CheckedDigits(digits, 0, signed /\ s[1] = "-")

RECURSIVE TrimStart(_)
TrimStart(s) ==
    IF s # <<>> /\ s[1] \in Whitespace THEN TrimStart(Tail(s)) ELSE s

RECURSIVE TrimEnd(_)
TrimEnd(s) ==
    IF s # <<>> /\ s[Len(s)] \in Whitespace
    THEN TrimEnd(SubSeq(s, 1, Len(s) - 1))
    ELSE s

Trim(s) == TrimEnd(TrimStart(s))

RECURSIVE Decimal(_)
Decimal(n) ==
    IF n < 10 THEN <<DigitChar[n + 1]>>
    ELSE Decimal(n \div 10) \o <<DigitChar[(n % 10) + 1]>>

\* Display of an i32.
DisplayInt(n) == IF n < 0 THEN <<"-">> \o Decimal(-n) ELSE Decimal(n)

DisplayBool(b) == IF b THEN <<"t", "r", "u", "e">> ELSE <<"f", "a", "l", "s", "e">>

\* The shorter string is the smaller one.
StrLessByLength(s, t) == Len(s) < Len(t)

\* str1 < str2 on Strings: lexicographic by bytes.
RECURSIVE StrLess(_, _)
StrLess(s, t) ==
    IF t = <<>> THEN FALSE
    ELSE IF s = <<>> THEN TRUE
    ELSE IF s[1] # t[1] THEN Byte(s[1]) < Byte(t[1])
    ELSE StrLess(Tail(s), Tail(t))

(***************************************************************************)
(* Display of the AST (src/src/ast.rs) and of values (src/src/utils.rs).   *)
(***************************************************************************)
DisplayBinaryOperator(op) ==
    CASE op = "Plus" -> <<"+">>
      [] op = "Minus" -> <<"-">>
      [] op = "Multiplication" -> <<"*">>
      [] op = "Division" -> <<"/">>
      [] op = "And" -> <<"&">>

\* ast.rs as given has no Equals, LessThan and GreaterThan variants, which
\* parser.rs and evaluator.rs use: their display is the operator's lexeme.
DisplayComparisonOperator(op) ==
    CASE op = "Equals" -> <<"=">>
      [] op = "LessThan" -> <<"<">>
      [] op = "GreaterThan" -> <<">">>

RECURSIVE DisplayExpression(_)
DisplayExpression(exp) ==
    CASE exp[1] = "Identifier" -> exp[2]
      [] exp[1] = "IntegerConstant" -> DisplayInt(exp[2])
      [] exp[1] = "StringValue" -> <<"\"">> \o exp[2] \o <<"\"">>
      [] exp[1] = "Boolean" -> DisplayBool(exp[2])
      [] exp[1] = "Unary" -> <<"(", "!", " ">> \o DisplayExpression(exp[3]) \o <<")">>
      [] exp[1] = "Binary" ->
            <<"(">> \o DisplayExpression(exp[2]) \o <<",", " ">>
            \o (IF exp[3] \in {"Equals", "LessThan", "GreaterThan"}
                THEN DisplayComparisonOperator(exp[3])
                ELSE DisplayBinaryOperator(exp[3]))
            \o <<",", " ">> \o DisplayExpression(exp[4]) \o <<")">>

\* impl Display for Type (src/src/utils.rs).
DisplayType(type_def) ==
    CASE type_def = "Boolean" -> <<"b", "o", "o", "l">>
      [] type_def = "String" -> <<"s", "t", "r", "i", "n", "g">>
      [] type_def = "Integer" -> <<"i", "n", "t">>

RECURSIVE DisplayStatement(_)
\* The body of a For: each statement after a tab, the lines joined by "\n".
RECURSIVE DisplayBody(_)
DisplayBody(stmts) ==
    IF stmts = <<>> THEN <<>>
    ELSE <<"\t">> \o DisplayStatement(Head(stmts))
         \o (IF Len(stmts) = 1 THEN <<>> ELSE <<"\n">> \o DisplayBody(Tail(stmts)))

\* impl Display for Statement (src/src/ast.rs).
DisplayStatement(stmt) ==
    CASE stmt[1] = "VarInitialization" ->
            <<"v", "a", "r", " ">> \o stmt[2] \o <<" ", ":", " ">>
            \o DisplayType(stmt[3]) \o <<";">>
      [] stmt[1] = "NewAssignment" ->
            <<"v", "a", "r", " ">> \o stmt[2] \o <<" ", ":", " ">>
            \o DisplayType(stmt[3]) \o <<" ", ":", "=", " ">>
            \o DisplayExpression(stmt[4]) \o <<";">>
      [] stmt[1] = "Assignment" ->
            stmt[2] \o <<" ", ":", "=", " ">> \o DisplayExpression(stmt[3]) \o <<";">>
      [] stmt[1] = "Print" ->
            <<"p", "r", "i", "n", "t", " ">> \o DisplayExpression(stmt[2]) \o <<";">>
      [] stmt[1] = "For" ->
            <<"f", "o", "r", " ">> \o stmt[2] \o <<" ", "i", "n", " ">>
            \o DisplayExpression(stmt[3]) \o <<".", ".">> \o DisplayExpression(stmt[4])
            \o <<" ", "d", "o", "\n">> \o DisplayBody(stmt[5])
            \o <<"\n", "e", "n", "d", " ", "f", "o", "r">>

DisplayValue(val) ==
    CASE val[1] = "Bool" -> DisplayBool(val[2])
      [] val[1] = "Integer" -> DisplayInt(val[2])
      [] val[1] = "String" -> val[2]

(***************************************************************************)
(* The evaluator (src/src/evaluator.rs).                                   *)
(***************************************************************************)
Ok == <<"Ok">>
Err(e) == <<"Err", e>>
Panic == <<"Panic">>
Running == <<"Running">>
None == <<"None">>
Some(v) == <<"Some", v>>

MismatchedTypes == <<"MismatchedTypes">>
UnsupportedOperation == <<"UnsupportedOperation">>
VariableNotInitialized(id) == <<"VariableNotInitialized", id>>
VariableAlreadyInitialized(id) == <<"VariableAlreadyInitialized", id>>
SyntaxError == <<"SyntaxError">>
IOError == <<"IOError">>

\* HashMap::new()
EmptyScope == [n \in {} |-> None]

\* HashMap::insert
Insert(scope, id, var) ==
    [n \in DOMAIN scope \cup {id} |-> IF n = id THEN var ELSE scope[n]]

find_assigned_variable(scope, id) ==
    IF id \in DOMAIN scope THEN <<"Ok", scope[id]>>
    ELSE Err(VariableNotInitialized(id))

\* The entry is inserted whether or not the name exists.
add_new_variable_overwriting(scope, id, var) ==
    [r |-> Ok, scope |-> Insert(scope, id, var)]

\* The result, and the scope afterwards.
add_new_variable(scope, id, var) ==
    IF id \in DOMAIN scope
    THEN [r |-> Err(VariableAlreadyInitialized(id)), scope |-> scope]
    ELSE [r |-> Ok, scope |-> Insert(scope, id, var)]

\* A check that accepts every value.
check_type_conformance_any(type_def, val) == Ok

check_type_conformance(type_def, val) ==
    CASE val[1] = "Bool" -> IF type_def = "Boolean" THEN Ok ELSE Err(MismatchedTypes)
      [] val[1] = "Integer" -> IF type_def = "Integer" THEN Ok ELSE Err(MismatchedTypes)
      [] val[1] = "String" -> IF type_def = "String" THEN Ok ELSE Err(MismatchedTypes)

\* i32 arithmetic: a result outside i32 panics (overflow checks on) or wraps
\* (off); the literals of the pools keep every result far inside i32, so the
\* branch is not reached within the bounds.
IntResult(n) == IF InI32(n) THEN <<"Ok", <<"Integer", n>>>> ELSE Panic

\* The quotient rounded toward minus infinity.
QuotientFloor(a, b) == a \div b

\* val1 / val2 of i32: truncates toward zero; panics on a zero divisor and
\* on i32::MIN / -1.
Quotient(a, b) ==
    LET q == (IF a < 0 THEN -a ELSE a) \div (IF b < 0 THEN -b ELSE b)
    IN  IF (a < 0) = (b < 0) THEN q ELSE -q

IntDivision(a, b) == IF b = 0 THEN Panic ELSE IntResult(Quotient(a, b))

BoolResult(b) == <<"Ok", <<"Bool", b>>>>

\* The match on (left, right) and on op, lines 165-191.
ApplyBinary(a, op, b) ==
    CASE a[1] = "Integer" /\ b[1] = "Integer" ->
            (CASE op = "Plus" -> IntResult(a[2] + b[2])
               [] op = "Minus" -> IntResult(a[2] - b[2])
               [] op = "Multiplication" -> IntResult(a[2] * b[2])
               [] op = "Division" -> IntDivision(a[2], b[2])
               [] op = "Equals" -> BoolResult(a[2] = b[2])
               [] op = "LessThan" -> BoolResult(a[2] < b[2])
               [] op = "GreaterThan" -> BoolResult(a[2] > b[2])
               [] OTHER -> Err(UnsupportedOperation))
      [] a[1] = "Bool" /\ b[1] = "Bool" ->
            (CASE op = "And" -> BoolResult(a[2] /\ b[2])
               [] op = "Equals" -> BoolResult(a[2] = b[2])
               [] op = "LessThan" -> BoolResult(~a[2] /\ b[2])
               [] op = "GreaterThan" -> BoolResult(a[2] /\ ~b[2])
               [] OTHER -> Err(UnsupportedOperation))
      [] a[1] = "String" /\ b[1] = "String" ->
            (CASE op = "Plus" -> <<"Ok", <<"String", a[2] \o b[2]>>>>
               [] op = "Equals" -> BoolResult(a[2] = b[2])
               [] op = "LessThan" -> BoolResult(StrLess(a[2], b[2]))
               [] op = "GreaterThan" -> BoolResult(StrLess(b[2], a[2]))
               [] OTHER -> Err(UnsupportedOperation))
      [] OTHER -> Err(MismatchedTypes)

RECURSIVE evaluate_expression(_, _)
\* The right operand is evaluated before the left one.
evaluate_binary_right_first(scope, left, op, right) ==
    LET r == evaluate_expression(scope, right)
    IN  IF r[1] # "Ok" THEN r
        ELSE LET l == evaluate_expression(scope, left)
             IN  IF l[1] # "Ok" THEN l ELSE ApplyBinary(l[2], op, r[2])

evaluate_binary(scope, left, op, right) ==
    LET l == evaluate_expression(scope, left)
    IN  IF l[1] # "Ok" THEN l
        ELSE LET r == evaluate_expression(scope, right)
             IN  IF r[1] # "Ok" THEN r ELSE ApplyBinary(l[2], op, r[2])

evaluate_unary(scope, op, exp) ==
    LET v == evaluate_expression(scope, exp)
    IN  IF v[1] # "Ok" THEN v
        ELSE IF v[2][1] = "Bool" THEN BoolResult(~v[2][2])
        ELSE Err(MismatchedTypes)

evaluate_expression(scope, exp) ==
    CASE exp[1] = "IntegerConstant" -> <<"Ok", <<"Integer", exp[2]>>>>
      [] exp[1] = "StringValue" -> <<"Ok", <<"String", exp[2]>>>>
      [] exp[1] = "Boolean" -> <<"Ok", <<"Bool", exp[2]>>>>
      [] exp[1] = "Binary" -> evaluate_binary(scope, exp[2], exp[3], exp[4])
      [] exp[1] = "Unary" -> evaluate_unary(scope, exp[2], exp[3])
      [] exp[1] = "Identifier" ->
            LET found == find_assigned_variable(scope, exp[2])
            IN  IF found[1] # "Ok" THEN found
                ELSE IF found[2][2][1] = "Some" THEN <<"Ok", found[2][2][2]>>
                ELSE Err(VariableNotInitialized(exp[2]))

(***************************************************************************)
(* The statement handlers: the result r, the scope and the output after.   *)
(***************************************************************************)
\* The variable is added before its value's type is checked.
evaluate_new_assignment_add_first(scope, out, identifier, type_def, exp) ==
    LET val == evaluate_expression(scope, exp)
    IN  IF val[1] # "Ok" THEN [r |-> val, scope |-> scope, out |-> out]
        ELSE LET added == add_new_variable(scope, identifier, <<type_def, Some(val[2])>>)
             IN  IF added.r # Ok THEN [r |-> added.r, scope |-> scope, out |-> out]
                 ELSE [r |-> check_type_conformance(type_def, val[2]),
                       scope |-> added.scope, out |-> out]

evaluate_new_assignment(scope, out, identifier, type_def, exp) ==
    LET val == evaluate_expression(scope, exp)
    IN  IF val[1] # "Ok" THEN [r |-> val, scope |-> scope, out |-> out]
        ELSE IF check_type_conformance(type_def, val[2]) # Ok
        THEN [r |-> check_type_conformance(type_def, val[2]), scope |-> scope, out |-> out]
        ELSE LET added == add_new_variable(scope, identifier, <<type_def, Some(val[2])>>)
             IN  [r |-> added.r, scope |-> added.scope, out |-> out]

evaluate_var_init(scope, out, id, type_def) ==
    [r |-> Ok, scope |-> Insert(scope, id, <<type_def, None>>), out |-> out]

\* The expression is evaluated before the variable is looked up.
evaluate_assignment_eval_first(scope, out, identifier, exp) ==
    LET val == evaluate_expression(scope, exp)
        found == find_assigned_variable(scope, identifier)
    IN  IF val[1] # "Ok" THEN [r |-> val, scope |-> scope, out |-> out]
        ELSE IF found[1] # "Ok" THEN [r |-> found, scope |-> scope, out |-> out]
        ELSE IF check_type_conformance(found[2][1], val[2]) # Ok
        THEN [r |-> check_type_conformance(found[2][1], val[2]),
              scope |-> scope, out |-> out]
        ELSE [r |-> Ok,
              scope |-> Insert(scope, identifier, <<found[2][1], Some(val[2])>>),
              out |-> out]

evaluate_assignment(scope, out, identifier, exp) ==
    LET found == find_assigned_variable(scope, identifier)
    IN  IF found[1] # "Ok" THEN [r |-> found, scope |-> scope, out |-> out]
        ELSE LET type_def == found[2][1]
                 val == evaluate_expression(scope, exp)
             IN  IF val[1] # "Ok" THEN [r |-> val, scope |-> scope, out |-> out]
                 ELSE IF check_type_conformance(type_def, val[2]) # Ok
                 THEN [r |-> check_type_conformance(type_def, val[2]),
                       scope |-> scope, out |-> out]
                 ELSE [r |-> Ok,
                       scope |-> Insert(scope, identifier, <<type_def, Some(val[2])>>),
                       out |-> out]

evaluate_print(scope, out, exp) ==
    LET val == evaluate_expression(scope, exp)
    IN  IF val[1] # "Ok" THEN [r |-> val, scope |-> scope, out |-> out]
        ELSE [r |-> Ok, scope |-> scope, out |-> out \o DisplayValue(val[2])]

\* What stdin().read_line gives: a line with its line break, nothing at the
\* end of the input, or a failure.
InputLines ==
    {<<"1", "\n">>, <<" ", "-", "2", " ", "\n">>, <<"a", "\n">>, <<>>}

get_input == {<<"Ok", line>> : line \in InputLines} \cup {Err(IOError)}

\* input: one element of get_input.
evaluate_read(scope, out, id, input) ==
    LET found == find_assigned_variable(scope, id)
    IN  IF found[1] # "Ok" THEN [r |-> found, scope |-> scope, out |-> out]
        ELSE IF input[1] # "Ok" THEN [r |-> input, scope |-> scope, out |-> out]
        ELSE LET type_def == found[2][1]
                 parsed == ParseI32(Trim(input[2]))
             IN  CASE type_def = "String" ->
                        [r |-> Ok,
                         scope |-> Insert(scope, id, <<type_def, Some(<<"String", input[2]>>)>>),
                         out |-> out]
                   [] type_def = "Integer" ->
                        IF parsed[1] = "Ok"
                        THEN [r |-> Ok,
                              scope |-> Insert(scope, id,
                                               <<type_def, Some(<<"Integer", parsed[2]>>)>>),
                              out |-> out]
                        ELSE [r |-> Err(MismatchedTypes), scope |-> scope, out |-> out]
                   [] OTHER -> [r |-> Err(MismatchedTypes), scope |-> scope, out |-> out]

AssertionFailed ==
    <<"A", "s", "s", "e", "r", "t", "i", "o", "n", " ",
      "f", "a", "i", "l", "e", "d", ":", " ">>

\* A false assertion fails the statement.
evaluate_assert_aborting(scope, out, exp) ==
    LET val == evaluate_expression(scope, exp)
    IN  IF val[1] # "Ok" THEN [r |-> val, scope |-> scope, out |-> out]
        ELSE IF val[2][1] = "Bool" /\ val[2][2] THEN [r |-> Ok, scope |-> scope, out |-> out]
        ELSE [r |-> Err(MismatchedTypes), scope |-> scope,
              out |-> IF val[2][1] = "Bool"
                      THEN out \o AssertionFailed \o DisplayExpression(exp) \o <<"\n">>
                      ELSE out]

evaluate_assert(scope, out, exp) ==
    LET val == evaluate_expression(scope, exp)
    IN  IF val[1] # "Ok" THEN [r |-> val, scope |-> scope, out |-> out]
        ELSE IF val[2][1] = "Bool" /\ ~val[2][2]
        THEN [r |-> Ok, scope |-> scope,
              out |-> out \o AssertionFailed \o DisplayExpression(exp) \o <<"\n">>]
        ELSE IF val[2][1] = "Bool" THEN [r |-> Ok, scope |-> scope, out |-> out]
        ELSE [r |-> Err(MismatchedTypes), scope |-> scope, out |-> out]

\* A bound that fails returns its own error.
ForBoundPropagating(scope, exp) ==
    LET v == evaluate_expression(scope, exp)
    IN  IF v[1] # "Ok" THEN v
        ELSE IF v[2][1] = "Integer" THEN <<"Ok", v[2][2]>>
        ELSE Err(MismatchedTypes)

\* Lines 117-128 of evaluate_for: <<"Ok", start, end>>, or the error returned
\* before the first iteration.
ForBound(scope, exp) ==
    LET v == evaluate_expression(scope, exp)
    IN  IF v = Panic THEN Panic
        ELSE IF v[1] = "Ok" /\ v[2][1] = "Integer" THEN <<"Ok", v[2][2]>>
        ELSE Err(MismatchedTypes)

\* The loop variable's declared type is not looked at.
evaluate_for_bounds_any_type(scope, id, exp1, exp2) ==
    LET start == ForBound(scope, exp1)
        end == ForBound(scope, exp2)
        found == find_assigned_variable(scope, id)
    IN  IF start[1] # "Ok" THEN start
        ELSE IF end[1] # "Ok" THEN end
        ELSE IF found[1] # "Ok" THEN found
        ELSE <<"Ok", start[2], end[2]>>

evaluate_for_bounds(scope, id, exp1, exp2) ==
    LET start == ForBound(scope, exp1)
        end == ForBound(scope, exp2)
        found == find_assigned_variable(scope, id)
    IN  IF start[1] # "Ok" THEN start
        ELSE IF end[1] # "Ok" THEN end
        ELSE IF found[1] # "Ok" THEN found
        ELSE IF found[2][1] # "Integer" THEN Err(MismatchedTypes)
        ELSE <<"Ok", start[2], end[2]>>

\* Lines 130-132: the loop variable is rebound at the start of an iteration.
BindLoopVariable(scope, id, i) ==
    Insert(scope, id, <<"Integer", Some(<<"Integer", i>>)>>)

(***************************************************************************)
(* The evaluator's control: stack holds one frame per active loop over a   *)
(* statement list, evaluate_program's first, then one per evaluate_for;    *)
(* idx is the statement the loop is at, Len(stmts) + 1 once past the last. *)
(***************************************************************************)
ProgramFrame(stmts) == [id |-> "", i |-> 0, end |-> 0, stmts |-> stmts, idx |-> 1]

ForFrame(id, i, end, stmts) == [id |-> id, i |-> i, end |-> end, stmts |-> stmts, idx |-> 1]

Top == stack[Len(stack)]

AtStatement ==
    /\ pc = "evaluate"
    /\ result = Running
    /\ stack # <<>>
    /\ Top.idx <= Len(Top.stmts)

Stmt == Top.stmts[Top.idx]

\* The loop goes on to its next statement.
Continue(stk) == [stk EXCEPT ![Len(stk)].idx = @ + 1]

\* evaluate_for drops the result of evaluate_statement: an error in a body
\* does not end the loop.
TryDroppedInFor(stk, r) ==
    IF r = Ok \/ Len(stk) > 1 THEN [stack |-> Continue(stk), result |-> Running]
    ELSE [stack |-> <<>>, result |-> r]

\* evaluate_statement(..)? in evaluate_program (line 24) and in evaluate_for
\* (line 134): Ok goes on with the next statement, anything else returns
\* from every active loop.  The stack and the result after r.
Try(stk, r) ==
    IF r = Ok THEN [stack |-> Continue(stk), result |-> Running]
    ELSE [stack |-> <<>>, result |-> r]

\* A statement handler returned o.
Finish(o) ==
    /\ global_scope' = o.scope
    /\ stdout' = o.out
    /\ stack' = Try(stack, o.r).stack
    /\ result' = Try(stack, o.r).result
    /\ pc' = IF Try(stack, o.r).result = Running THEN pc ELSE "exit"
    /\ executed' = executed + 1
    /\ last' = o.r
    /\ UNCHANGED <<tokenizer, tokens, file, parser, errors, program>>

EvaluateNewAssignment ==
    /\ AtStatement
    /\ Stmt[1] = "NewAssignment"
    /\ Finish(evaluate_new_assignment(global_scope, stdout, Stmt[2], Stmt[3], Stmt[4]))

EvaluateVarInit ==
    /\ AtStatement
    /\ Stmt[1] = "VarInitialization"
    /\ Finish(evaluate_var_init(global_scope, stdout, Stmt[2], Stmt[3]))

EvaluateAssignment ==
    /\ AtStatement
    /\ Stmt[1] = "Assignment"
    /\ Finish(evaluate_assignment(global_scope, stdout, Stmt[2], Stmt[3]))

EvaluatePrint ==
    /\ AtStatement
    /\ Stmt[1] = "Print"
    /\ Finish(evaluate_print(global_scope, stdout, Stmt[2]))

EvaluateRead ==
    /\ AtStatement
    /\ Stmt[1] = "Read"
    /\ \E input \in get_input :
          Finish(evaluate_read(global_scope, stdout, Stmt[2], input))

EvaluateAssert ==
    /\ AtStatement
    /\ Stmt[1] = "Assert"
    /\ Finish(evaluate_assert(global_scope, stdout, Stmt[2]))

\* evaluate_for up to the start of its first iteration, or to its return
\* when it fails or its range is empty.
EvaluateFor ==
    /\ AtStatement
    /\ Stmt[1] = "For"
    /\ LET b == evaluate_for_bounds(global_scope, Stmt[2], Stmt[3], Stmt[4])
       IN  IF b[1] # "Ok"
           THEN Finish([r |-> b, scope |-> global_scope, out |-> stdout])
           ELSE IF b[2] > b[3]
           THEN Finish([r |-> Ok, scope |-> global_scope, out |-> stdout])
           ELSE /\ global_scope' = BindLoopVariable(global_scope, Stmt[2], b[2])
                /\ stack' = Append(stack, ForFrame(Stmt[2], b[2], b[3], Stmt[5]))
                /\ executed' = executed + 1
                /\ UNCHANGED <<tokenizer, tokens, file, parser, errors, program, pc, stdout, result, last>>

\* The range start..end, without its upper bound.
RangeNextExclusive(i, end) == IF i + 1 < end THEN Some(i + 1) ELSE None

\* The value the range start..=end yields after i: <<"Some", i + 1>>, or None.
RangeNext(i, end) == IF i < end THEN Some(i + 1) ELSE None

\* The range continues from the value the loop variable holds.
LoopIndexFromVariable ==
    IF /\ Top.id \in DOMAIN global_scope
       /\ global_scope[Top.id][2] # None
       /\ global_scope[Top.id][2][2][1] = "Integer"
    THEN global_scope[Top.id][2][2][2]
    ELSE Top.i

\* The value the range of the innermost evaluate_for yielded last.
LoopIndex == Top.i

\* The body of an evaluate_for is past its last statement: the next
\* iteration starts, or evaluate_for returns Ok to the loop that called it.
ForNext ==
    /\ pc = "evaluate"
    /\ result = Running
    /\ Len(stack) > 1
    /\ Top.idx > Len(Top.stmts)
    /\ LET next == RangeNext(LoopIndex, Top.end)
       IN  IF next # None
           THEN /\ global_scope' = BindLoopVariable(global_scope, Top.id, next[2])
                /\ stack' = [stack EXCEPT ![Len(stack)].i = next[2],
                                          ![Len(stack)].idx = 1]
                /\ UNCHANGED last
           ELSE /\ stack' = Try(SubSeq(stack, 1, Len(stack) - 1), Ok).stack
                /\ last' = Ok
                /\ UNCHANGED global_scope
    /\ UNCHANGED <<tokenizer, tokens, file, parser, errors, program, pc, stdout, result, executed>>

\* evaluate_program is past its last statement: Ok(()).
EvaluateProgramReturn ==
    /\ pc = "evaluate"
    /\ result = Running
    /\ Len(stack) = 1
    /\ Top.idx > Len(Top.stmts)
    /\ result' = Ok
    /\ stack' = <<>>
    /\ pc' = "exit"
    /\ UNCHANGED <<tokenizer, tokens, file, parser, errors, program, global_scope, stdout, executed, last>>

NextEvaluator ==
    \/ EvaluateNewAssignment
    \/ EvaluateVarInit
    \/ EvaluateAssignment
    \/ EvaluatePrint
    \/ EvaluateRead
    \/ EvaluateAssert
    \/ EvaluateFor
    \/ ForNext
    \/ EvaluateProgramReturn

(***************************************************************************)
(* Tokens (src/src/token.rs).  A token is <<kind>>, or <<kind, text>> for  *)
(* Identifier, IntegerConstant and StringValue.                            *)
(***************************************************************************)
Tok(kind) == <<kind>>

EOF == Tok("EOF")

Keywords ==
    << <<<<"f", "o", "r">>, "For">>, <<<<"i", "n">>, "In">>, <<<<"d", "o">>, "Do">>, <<<<"e", "n", "d">>, "End">>,
       <<<<"t", "r", "u", "e">>, "True">>, <<<<"f", "a", "l", "s", "e">>, "False">>, <<<<"v", "a", "r">>, "Var">>,
       <<<<"p", "r", "i", "n", "t">>, "Print">>, <<<<"b", "o", "o", "l">>, "BooleanType">>,
       <<<<"s", "t", "r", "i", "n", "g">>, "StringType">>, <<<<"i", "n", "t">>, "IntegerType">>,
       <<<<"a", "s", "s", "e", "r", "t">>, "Assert">>, <<<<"r", "e", "a", "d">>, "Read">> >>

get_id_or_key_token(lexeme) ==
    IF \E k \in 1..Len(Keywords) : Keywords[k][1] = lexeme
    THEN Tok(Keywords[CHOOSE k \in 1..Len(Keywords) : Keywords[k][1] = lexeme][2])
    ELSE <<"Identifier", lexeme>>

\* impl Display for Token
DisplayToken(token) ==
    CASE token[1] \in {"Identifier", "IntegerConstant", "StringValue"} -> token[2]
      [] token[1] = "Plus" -> <<"+">>
      [] token[1] = "Minus" -> <<"-">>
      [] token[1] = "Multiplication" -> <<"*">>
      [] token[1] = "Division" -> <<"/">>
      [] token[1] = "And" -> <<"&">>
      [] token[1] = "Not" -> <<"!">>
      [] token[1] = "LeftBracket" -> <<"(">>
      [] token[1] = "RightBracket" -> <<")">>
      [] token[1] = "Colon" -> <<":">>
      [] token[1] = "SemiColon" -> <<";">>
      [] token[1] = "Equals" -> <<"=">>
      [] token[1] = "LessThan" -> <<"<">>
      [] token[1] = "GreaterThan" -> <<">">>
      [] token[1] = "Assign" -> <<":", "=">>
      [] token[1] = "Range" -> <<".", ".">>
      [] token[1] = "EOF" -> <<"E", "O", "F">>
      [] token[1] = "Illegal" -> <<"I", "l", "l", "e", "g", "a", "l", " ", "T", "o", "k", "e", "n", "!">>
      [] OTHER ->
            Keywords[CHOOSE k \in 1..Len(Keywords) : Keywords[k][2] = token[1]][1]

(***************************************************************************)
(* The tokenizer (src/src/lexer.rs).  position counts from 0, as in the    *)
(* code; current_char is an Option.                                        *)
(***************************************************************************)
CharAt(source, pos) == IF Len(source) > pos THEN Some(source[pos + 1]) ELSE None

LexerNew(source) ==
    LET src == Trim(source)
    IN  [source |-> src, position |-> 0, current_char |-> CharAt(src, 0)]

advance(lexer) ==
    [lexer EXCEPT !.position = @ + 1,
                  !.current_char = CharAt(lexer.source, lexer.position + 1)]

peek(lexer) == CharAt(lexer.source, lexer.position + 1)

\* The characters the pattern [a-zA-Z0-9_]+ matches.
IdPattern == Alphabetic \cup Digit \cup {"_"}

\* The lexeme read, and the lexer left on the lexeme's last character.
RECURSIVE read_identifier_from(_, _)
read_identifier_from(lexer, lexeme) ==
    IF peek(lexer) # None /\ peek(lexer)[2] \in IdPattern
    THEN read_identifier_from(advance(lexer), Append(lexeme, lexer.current_char[2]))
    ELSE [lexeme |-> Append(lexeme, lexer.current_char[2]), lexer |-> lexer]

read_identifier(lexer) == read_identifier_from(lexer, <<>>)

RECURSIVE read_integer_from(_, _)
read_integer_from(lexer, lexeme) ==
    IF peek(lexer) # None /\ peek(lexer)[2] \in Digit
    THEN read_integer_from(advance(lexer), Append(lexeme, lexer.current_char[2]))
    ELSE [lexeme |-> Append(lexeme, lexer.current_char[2]), lexer |-> lexer]

\* Reads one digit whatever follows it.
read_integer_one_digit(lexer) == [lexeme |-> <<lexer.current_char[2]>>, lexer |-> lexer]

read_integer(lexer) == read_integer_from(lexer, <<>>)

\* The character an escape sequence stands for, None for an unknown one.
Escape(next) ==
    CASE next = Some("\"") -> Some("\"")
      [] next = Some("\\") -> Some("\\")
      [] next = Some("n") -> Some("\n")
      [] next = Some("t") -> Some("\t")
      [] OTHER -> None

\* The lexeme read, the lexer left on the closing quote (or at the end of
\* the source), and whether an unknown escape made the process panic.
RECURSIVE read_string_from(_, _)
read_string_from(lexer, lexeme) ==
    IF lexer.current_char # None /\ lexer.current_char[2] # "\""
    THEN IF lexer.current_char[2] = "\\"
         THEN IF Escape(peek(lexer)) = None
              THEN [lexeme |-> lexeme, lexer |-> lexer, panic |-> TRUE]
              ELSE read_string_from(advance(advance(lexer)),
                                    Append(lexeme, Escape(peek(lexer))[2]))
         ELSE read_string_from(advance(lexer), Append(lexeme, lexer.current_char[2]))
    ELSE [lexeme |-> lexeme, lexer |-> lexer, panic |-> FALSE]

read_string(lexer) == read_string_from(lexer, <<>>)

RECURSIVE skip_whitespace(_)
skip_whitespace(lexer) ==
    IF lexer.current_char # None /\ lexer.current_char[2] \in Whitespace
    THEN skip_whitespace(advance(lexer))
    ELSE lexer

SingleCharacterTokens ==
    << <<"+", "Plus">>, <<"-", "Minus">>, <<"*", "Multiplication">>,
       <<"/", "Division">>, <<";", "SemiColon">>, <<"&", "And">>, <<"!", "Not">>,
       <<"(", "LeftBracket">>, <<")", "RightBracket">>, <<"=", "Equals">>,
       <<">", "GreaterThan">>, <<"<", "LessThan">> >>

\* A token scanned: the token, the lexer before the closing advance, and
\* whether the process panicked.
Scanned(token, lexer, panic) == [token |-> token, lexer |-> lexer, panic |-> panic]

\* The arms of the match that read a lexeme, given what the read returned.
StringToken(read) == Scanned(<<"StringValue", read.lexeme>>, read.lexer, read.panic)

IdOrKeyToken(read) == Scanned(get_id_or_key_token(read.lexeme), read.lexer, FALSE)

IntegerToken(read) == Scanned(<<"IntegerConstant", read.lexeme>>, read.lexer, FALSE)

\* The match on current_char = Some(ch), lines 90-134.
MatchChar(lexer, ch) ==
    IF \E k \in 1..Len(SingleCharacterTokens) : SingleCharacterTokens[k][1] = ch
    THEN Scanned(Tok(SingleCharacterTokens[
             CHOOSE k \in 1..Len(SingleCharacterTokens) :
                 SingleCharacterTokens[k][1] = ch][2]), lexer, FALSE)
    ELSE IF ch = "."
    THEN IF peek(lexer) = Some(".")
         THEN Scanned(Tok("Range"), advance(lexer), FALSE)
         ELSE Scanned(Tok("Illegal"), lexer, FALSE)
    ELSE IF ch = ":"
    THEN IF peek(lexer) = Some("=")
         THEN Scanned(Tok("Assign"), advance(lexer), FALSE)
         ELSE Scanned(Tok("Colon"), lexer, FALSE)
    ELSE IF ch = "\""
    THEN StringToken(read_string(advance(lexer)))
    ELSE IF ch \in Alphabetic
    THEN IdOrKeyToken(read_identifier(lexer))
    ELSE IF ch \in Digit
    THEN IntegerToken(read_integer(lexer))
    ELSE Scanned(Tok("Illegal"), lexer, FALSE)

\* The match on current_char, lines 90-135.
ScanToken(lexer) ==
    IF lexer.current_char = None THEN Scanned(EOF, lexer, FALSE)
    ELSE MatchChar(lexer, lexer.current_char[2])

\* The token is returned without the closing advance.
AfterScanStaying(scanned) == scanned

\* self.advance(); token, line 137-138.
AfterScan(scanned) == [scanned EXCEPT !.lexer = advance(scanned.lexer)]

get_next_token(lexer) == AfterScan(ScanToken(skip_whitespace(lexer)))

(***************************************************************************)
(* The parser (src/src/parser.rs).  A parser is the record of its lexer,   *)
(* current_token and peek_token; panic records that the process panicked   *)
(* under it.  A parse function gives [r, p]: its result <<"Ok", value>> or *)
(* <<"Err", <<kind, token>>>>, and the parser afterwards.                  *)
(***************************************************************************)
\* next_token, given the token the lexer returned.
Shift(p, got) ==
    [lexer |-> got.lexer, current_token |-> p.peek_token,
     peek_token |-> got.token, panic |-> p.panic \/ got.panic]

next_token(p) == Shift(p, get_next_token(p.lexer))

ParserNew(lexer) ==
    next_token(next_token([lexer |-> lexer, current_token |-> EOF,
                           peek_token |-> EOF, panic |-> FALSE]))

\* A parse in progress is a step [r, p]: r is <<"Ok", values>> with the
\* values bound so far by let, or the <<"Err", ..>> that a ? returned; p is
\* the parser.  Each operator below is one line of a parse function and
\* leaves a failed step as it is: the function has returned.
Start(p) == [r |-> <<"Ok", <<>>>>, p |-> p]

Failed(step) == step.r[1] # "Ok"

\* self.next_token();
Advance(step) == IF Failed(step) THEN step ELSE [step EXCEPT !.p = next_token(step.p)]

expect_current_token(p, expected, err) ==
    IF expected = p.current_token THEN Ok ELSE Err(<<err, p.current_token>>)

\* self.expect_current_token(expected, err)?;
Expect(step, expected, err) ==
    IF Failed(step) \/ expect_current_token(step.p, expected, err) = Ok THEN step
    ELSE [step EXCEPT !.r = expect_current_token(step.p, expected, err)]

\* self.expect_and_advance(expected, err)?;
expect_and_advance(step, expected, err) == Advance(Expect(step, expected, err))

\* let value = <got>?; where got is what a parse function returned.
Bind(step, got) ==
    IF Failed(got) THEN got
    ELSE [r |-> <<"Ok", Append(step.r[2], got.r[2])>>, p |-> got.p]

\* The step returns Ok(kind(values..)).
Make(kind, step) ==
    IF Failed(step) THEN step ELSE [step EXCEPT !.r = <<"Ok", <<kind>> \o step.r[2]>>]

is_end_of_exp(p) ==
    p.peek_token[1] \in {"SemiColon", "RightBracket", "Range", "Do", "End"}

parse_identifier(p) ==
    [r |-> IF p.current_token[1] = "Identifier" THEN <<"Ok", p.current_token[2]>>
           ELSE Err(<<"ExpectedIdentifier", p.current_token>>),
     p |-> p]

BindIdentifier(step) == IF Failed(step) THEN step ELSE Bind(step, parse_identifier(step.p))

BinaryOperatorTokens ==
    {"Plus", "Minus", "Multiplication", "Division", "Equals", "LessThan",
     "GreaterThan", "And"}

parse_op(p) ==
    [r |-> IF p.current_token[1] \in BinaryOperatorTokens
           THEN <<"Ok", p.current_token[1]>>
           ELSE Err(<<"UnexpectedToken", p.current_token>>),
     p |-> p]

BindOp(step) == IF Failed(step) THEN step ELSE Bind(step, parse_op(step.p))

RECURSIVE parse_expression(_)
BindExpression(step) == IF Failed(step) THEN step ELSE Bind(step, parse_expression(step.p))

\* The value of a literal or identifier token; <<"Panic">> where
\* int.parse::<i32>().unwrap() panics.
OperandOf(token) ==
    CASE token[1] = "Identifier" -> <<"Ok", <<"Identifier", token[2]>>>>
      [] token[1] = "IntegerConstant" ->
            IF ParseI32(token[2])[1] = "Ok"
            THEN <<"Ok", <<"IntegerConstant", ParseI32(token[2])[2]>>>>
            ELSE Panic
      [] token[1] = "StringValue" -> <<"Ok", <<"StringValue", token[2]>>>>
      [] token[1] = "True" -> <<"Ok", <<"Boolean", TRUE>>>>
      [] token[1] = "False" -> <<"Ok", <<"Boolean", FALSE>>>>
      [] OTHER -> Err(<<"ExpectedOperand", token>>)

parse_operand(p) ==
    IF p.current_token = Tok("LeftBracket")
    THEN Expect(Advance(parse_expression(next_token(p))),
                Tok("RightBracket"), "ExpectedClosingBracket")
    ELSE [r |-> OperandOf(p.current_token),
          p |-> [p EXCEPT !.panic = @ \/ OperandOf(p.current_token) = Panic]]

BindOperand(step) == IF Failed(step) THEN step ELSE Bind(step, parse_operand(step.p))

\* parse_binary once left is parsed, lines 160-168.
BinaryAfter(left) ==
    IF Failed(left) \/ is_end_of_exp(left.p) THEN left
    ELSE Make("Binary", BindOperand(Advance(BindOp(Advance(Bind(Start(left.p), left))))))

parse_binary(p) == BinaryAfter(parse_operand(p))

parse_unary(p, op) == Make("Unary", Bind([r |-> <<"Ok", <<op>>>>, p |-> p],
                                         parse_binary(next_token(p))))

parse_expression(p) ==
    IF p.current_token = Tok("Not") THEN parse_unary(p, "Not") ELSE parse_binary(p)

\* let exp = self.parse_expression()?; self.next_token();
\* self.expect_current_token(Token::SemiColon, ParseError::ExpectedSemiColon)?;
ExpressionThenSemiColon(step) ==
    Expect(Advance(BindExpression(step)), Tok("SemiColon"), "ExpectedSemiColon")

parse_assignment(p) ==
    LET identifier == Advance(BindIdentifier(Start(p)))
        assign == expect_and_advance(identifier, Tok("Assign"), "ExpectedAssignment")
    IN  Make("Assignment", ExpressionThenSemiColon(assign))

TypeTokens ==
    << <<"BooleanType", "Boolean">>, <<"IntegerType", "Integer">>,
       <<"StringType", "String">> >>

\* let type_def = match self.get_current_token() { .. };
BindType(step) ==
    IF Failed(step) THEN step
    ELSE IF \E k \in 1..3 : TypeTokens[k][1] = step.p.current_token[1]
    THEN [step EXCEPT !.r[2] =
              Append(@, TypeTokens[CHOOSE k \in 1..3 :
                                       TypeTokens[k][1] = step.p.current_token[1]][2])]
    ELSE [step EXCEPT !.r = Err(<<"ExpectedTypeDefinition", step.p.current_token>>)]

\* parse_new_assignment once the type is parsed, lines 129-137.
NewAssignmentAfter(typed) ==
    IF Failed(typed) THEN typed
    ELSE IF typed.p.current_token = Tok("SemiColon") THEN Make("VarInitialization", typed)
    ELSE Make("NewAssignment",
              ExpressionThenSemiColon(
                  expect_and_advance(typed, Tok("Assign"), "ExpectedAssignment")))

parse_new_assignment(p) ==
    LET identifier == Advance(BindIdentifier(Advance(Start(p))))
        colon == expect_and_advance(identifier, Tok("Colon"), "ExpectedColon")
    IN  NewAssignmentAfter(Advance(BindType(colon)))

parse_assert(p) ==
    LET open == expect_and_advance(Advance(Start(p)), Tok("LeftBracket"),
                                   "ExpectedLeftBracket")
        closed == Expect(Advance(BindExpression(open)), Tok("RightBracket"),
                         "ExpectedClosingBracket")
    IN  Make("Assert", Expect(Advance(closed), Tok("SemiColon"), "ExpectedSemiColon"))

\* The Print and Read arms of parse_statement, lines 54-67.
ParsePrint(p) == Make("Print", ExpressionThenSemiColon(Advance(Start(p))))

ParseRead(p) ==
    Make("Read", Expect(Advance(BindIdentifier(Advance(Start(p)))),
                        Tok("SemiColon"), "ExpectedSemiColon"))

RECURSIVE parse_statement(_)
RECURSIVE parse_for_body(_, _)
\* The while loop of parse_for once a statement of the body is parsed.
BodyAfter(stmt, stmts) ==
    IF Failed(stmt) THEN stmt
    ELSE parse_for_body(next_token(stmt.p), Append(stmts, stmt.r[2]))

\* The while loop of parse_for, lines 88-92: the body's statements.
parse_for_body(p, stmts) ==
    IF p.current_token # Tok("End") THEN BodyAfter(parse_statement(p), stmts)
    ELSE [r |-> <<"Ok", stmts>>, p |-> p]

BindBody(step) == IF Failed(step) THEN step ELSE Bind(step, parse_for_body(step.p, <<>>))

parse_for(p) ==
    LET identifier == Advance(BindIdentifier(Advance(Start(p))))
        in == expect_and_advance(identifier, Tok("In"), "ExpectedIn")
        exp1 == Advance(BindExpression(in))
        range == expect_and_advance(exp1, Tok("Range"), "ExpectedRange")
        exp2 == Advance(BindExpression(range))
        do == expect_and_advance(exp2, Tok("Do"), "ExpectedDo")
        stmts == Advance(BindBody(do))
        for == expect_and_advance(stmts, Tok("For"), "ExpectedFor")
    IN  Make("For", Expect(for, Tok("SemiColon"), "ExpectedSemiColon"))

parse_statement(p) ==
    CASE p.current_token[1] = "Identifier" -> parse_assignment(p)
      [] p.current_token[1] = "Var" -> parse_new_assignment(p)
      [] p.current_token[1] = "For" -> parse_for(p)
      [] p.current_token[1] = "Assert" -> parse_assert(p)
      [] p.current_token[1] = "Print" -> ParsePrint(p)
      [] p.current_token[1] = "Read" -> ParseRead(p)
      [] OTHER -> [r |-> Err(<<"UnexpectedToken", p.current_token>>), p |-> p]

\* impl Display for ParseError (src/src/utils.rs).
Expected ==
    << <<"ExpectedColon", <<":">>>>,
       <<"ExpectedTypeDefinition", <<"t", "y", "p", "e", " ", "d", "e", "f", "i", "n", "i", "t", "i", "o", "n">>>>,
       <<"ExpectedLeftBracket", <<"(">>>>,
       <<"ExpectedClosingBracket", <<")">>>>,
       <<"ExpectedAssignment", <<":", "=">>>>,
       <<"ExpectedOperand", <<"o", "p", "e", "r", "a", "n", "d">>>>,
       <<"ExpectedSemiColon", <<";">>>>,
       <<"ExpectedIn", <<"i", "n", " ", "k", "e", "y", "w", "o", "r", "d">>>>,
       <<"ExpectedDo", <<"d", "o", " ", "k", "e", "y", "w", "o", "r", "d">>>>,
       <<"ExpectedRange", <<".", ".">>>>,
       <<"ExpectedFor", <<"f", "o", "r", " ", "k", "e", "y", "w", "o", "r", "d">>>>,
       <<"ExpectedIdentifier", <<"i", "d", "e", "n", "t", "i", "f", "i", "e", "r">>>> >>

DisplayParseError(err) ==
    IF err[1] = "UnexpectedToken"
    THEN <<"U", "n", "e", "x", "p", "e", "c", "t", "e", "d", " ", "t", "o", "k", "e", "n", ":", " ">> \o DisplayToken(err[2])
    ELSE <<"E", "x", "p", "e", "c", "t", "e", "d", " ">>
         \o Expected[CHOOSE k \in 1..Len(Expected) : Expected[k][1] = err[1]][2]
         \o <<" ", "g", "o", "t", " ">> \o DisplayToken(err[2])

(***************************************************************************)
(* The pipeline: parse_program's loop (src/src/parser.rs, lines 32-46),    *)
(* then interpret (src/src/main.rs, lines 44-62).  While pc = "parse",     *)
(* program holds parse_program's statements.                               *)
(***************************************************************************)
\* Only the last error is kept.
ParseStatementAfterLastError(stmt) ==
    IF next_token(stmt.p).panic
    THEN /\ pc' = "exit"
         /\ result' = Panic
         /\ UNCHANGED <<parser, errors, program>>
    ELSE /\ parser' = next_token(stmt.p)
         /\ program' = IF Failed(stmt) THEN program ELSE Append(program, stmt.r[2])
         /\ errors' = IF Failed(stmt) THEN <<stmt.r[2]>> ELSE errors
         /\ UNCHANGED <<pc, result>>

\* The loop does not call next_token after the statement.
ParseStatementAfterStaying(stmt) ==
    IF stmt.p.panic
    THEN /\ pc' = "exit"
         /\ result' = Panic
         /\ UNCHANGED <<parser, errors, program>>
    ELSE /\ parser' = stmt.p
         /\ program' = IF Failed(stmt) THEN program ELSE Append(program, stmt.r[2])
         /\ errors' = IF Failed(stmt) THEN Append(errors, stmt.r[2]) ELSE errors
         /\ UNCHANGED <<pc, result>>

\* One iteration of parse_program's loop, once parse_statement returned stmt.
ParseStatementAfter(stmt) ==
    IF next_token(stmt.p).panic
    THEN /\ pc' = "exit"
         /\ result' = Panic
         /\ UNCHANGED <<parser, errors, program>>
    ELSE /\ parser' = next_token(stmt.p)
         /\ program' = IF Failed(stmt) THEN program ELSE Append(program, stmt.r[2])
         /\ errors' = IF Failed(stmt) THEN Append(errors, stmt.r[2]) ELSE errors
         /\ UNCHANGED <<pc, result>>

ParseStatement ==
    /\ pc = "parse"
    /\ parser.current_token # EOF
    /\ ParseStatementAfter(parse_statement(parser))
    /\ UNCHANGED <<tokenizer, tokens, file, global_scope, stack, stdout, executed, last>>

\* parse_program returns at EOF.
ParseProgramReturn ==
    /\ pc = "parse"
    /\ parser.current_token = EOF
    /\ pc' = "interpret"
    /\ UNCHANGED <<tokenizer, tokens, file, parser, errors, program, global_scope, stack, stdout, result,
                   executed, last>>

\* println!("{}", err) for each syntax error.
RECURSIVE ErrorLines(_)
ErrorLines(errs) ==
    IF errs = <<>> THEN <<>>
    ELSE DisplayParseError(Head(errs)) \o <<"\n">> \o ErrorLines(Tail(errs))

\* interpret evaluates whatever was parsed.
EvaluatesAnyway(syntax_errors) == TRUE

\* syntax_errors.is_empty(): whether interpret goes on to evaluate.
Evaluates(syntax_errors) == syntax_errors = <<>>

Interpret ==
    /\ pc = "interpret"
    /\ IF Evaluates(errors)
       THEN /\ pc' = "evaluate"
            /\ global_scope' = EmptyScope
            /\ stack' = <<ProgramFrame(program)>>
            /\ UNCHANGED <<stdout, result>>
       ELSE /\ pc' = "exit"
            /\ stdout' = stdout \o ErrorLines(errors)
            /\ result' = Err(SyntaxError)
            /\ UNCHANGED <<global_scope, stack>>
    /\ UNCHANGED <<tokenizer, tokens, file, parser, errors, program, executed, last>>

(***************************************************************************)
(* The programs the evaluator is checked on: one of Preludes, then at most *)
(* MaxProgramLen statements of StatementPool.                              *)
(***************************************************************************)
Ident(name) == <<"Identifier", name>>
IntLit(n) == <<"IntegerConstant", n>>
StrLit(s) == <<"StringValue", s>>
BoolLit(b) == <<"Boolean", b>>
Binary(l, op, r) == <<"Binary", l, op, r>>
Not(e) == <<"Unary", "Not", e>>

PrintStmt(e) == <<"Print", e>>
AssertStmt(e) == <<"Assert", e>>
ForStmt(id, e1, e2, stmts) == <<"For", id, e1, e2, stmts>>

CountingLoops ==
    {ForStmt(<<"x">>, IntLit(a), IntLit(b), <<PrintStmt(Ident(<<"x">>))>>) : a, b \in 1..MaxRange}

\* for x in 1..2 do var y : int; for y in x..2 do print y; y := "a"; print x;
\* end for; print x; end for;
NestedLoops ==
    ForStmt(<<"x">>, IntLit(1), IntLit(2),
            << <<"VarInitialization", <<"y">>, "Integer">>,
               ForStmt(<<"y">>, Ident(<<"x">>), IntLit(2),
                       <<PrintStmt(Ident(<<"y">>)),
                         <<"Assignment", <<"y">>, StrLit(<<"a">>)>>,
                         PrintStmt(Ident(<<"x">>))>>),
               PrintStmt(Ident(<<"x">>)) >>)

StatementPool ==
    {<<"VarInitialization", <<"x">>, "Integer">>,
     <<"VarInitialization", <<"x">>, "String">>,
     <<"VarInitialization", <<"y">>, "Boolean">>,
     <<"NewAssignment", <<"x">>, "Integer", IntLit(1)>>,
     <<"NewAssignment", <<"y">>, "String", StrLit(<<"a">>)>>,
     <<"NewAssignment", <<"x">>, "Integer", StrLit(<<"a">>)>>,
     <<"NewAssignment", <<"y">>, "Boolean", Binary(IntLit(1), "LessThan", IntLit(2))>>,
     <<"Assignment", <<"x">>, Binary(Ident(<<"x">>), "Plus", IntLit(1))>>,
     <<"Assignment", <<"x">>, StrLit(<<"a">>)>>,
     <<"Assignment", <<"y">>, Ident(<<"x">>)>>,
     <<"Assignment", <<"y">>, Binary(IntLit(1), "Division", IntLit(0))>>,
     PrintStmt(Ident(<<"x">>)),
     PrintStmt(IntLit(1)),
     <<"Read", <<"x">>>>,
     <<"Read", <<"y">>>>,
     AssertStmt(BoolLit(FALSE)),
     AssertStmt(Not(Binary(BoolLit(TRUE), "And", Ident(<<"y">>)))),
     AssertStmt(IntLit(1)),
     NestedLoops,
     ForStmt(<<"x">>, IntLit(1), IntLit(2),
             << <<"Assignment", <<"x">>, Binary(Ident(<<"x">>), "Plus", IntLit(1))>>,
                <<"VarInitialization", <<"x">>, "String">> >>)}
    \cup CountingLoops

\* Declarations a program may start with: none; x without a value and a
\* true y; x with the value 1 and y without a value.
Preludes ==
    {<<>>,
     << <<"VarInitialization", <<"x">>, "Integer">>,
        <<"NewAssignment", <<"y">>, "Boolean", Binary(IntLit(1), "LessThan", IntLit(2))>> >>,
     << <<"NewAssignment", <<"x">>, "Integer", IntLit(1)>>,
        <<"VarInitialization", <<"y">>, "String">> >>}

\* Operands of every runtime type: 0, 2, 7, (0 - 2) and (0 - 7); the booleans;
\* the strings "", "a", "ab" and "b"; and operands whose evaluation fails: two
\* undeclared names and a division by zero.
Operands ==
    {IntLit(0), IntLit(2), IntLit(7),
     Binary(IntLit(0), "Minus", IntLit(2)), Binary(IntLit(0), "Minus", IntLit(7)),
     BoolLit(TRUE), BoolLit(FALSE),
     StrLit(<<>>), StrLit(<<"a">>), StrLit(<<"a", "b">>), StrLit(<<"b">>),
     Ident(<<"u">>), Ident(<<"v">>), Binary(IntLit(1), "Division", IntLit(0))}

\* print l op r; for every pair of operands and every operator.
ExpressionPrograms ==
    {<<PrintStmt(Binary(l, op, r))>> :
        l \in Operands, r \in Operands,
        op \in {"Plus", "Minus", "Multiplication", "Division", "And", "Equals",
                "LessThan", "GreaterThan"}}

\* var x : int; var n : int := 2; var b : bool; var s : string;  u is never
\* declared.
Declarations ==
    << <<"VarInitialization", <<"x">>, "Integer">>,
       <<"NewAssignment", <<"n">>, "Integer", IntLit(2)>>,
       <<"VarInitialization", <<"b">>, "Boolean">>,
       <<"VarInitialization", <<"s">>, "String">> >>

\* Every statement that evaluates an expression, on the undeclared u and on
\* x, which has no value.
IdentifierStatements ==
    UNION {{<<"NewAssignment", <<"z">>, "Integer", Ident(id)>>,
            <<"Assignment", <<"n">>, Ident(id)>>,
            PrintStmt(Ident(id)),
            AssertStmt(Ident(id)),
            ForStmt(<<"x">>, Ident(id), IntLit(2), <<PrintStmt(Ident(<<"x">>))>>),
            ForStmt(<<"x">>, IntLit(1), Ident(id), <<PrintStmt(Ident(<<"x">>))>>)}
           : id \in {<<"u">>, <<"x">>}}

\* for id in a..b do print id; end for; on the undeclared u, the Boolean b,
\* the String s and the Integer x.
LoopVariableStatements ==
    {ForStmt(id, IntLit(a), IntLit(b), <<PrintStmt(Ident(id))>>) :
        id \in {<<"u">>, <<"b">>, <<"s">>, <<"x">>}, a \in 1..MaxRange, b \in 1..MaxRange}

\* for x in a..n do n := n + 1; x := x + 5; print x; end for;
AssigningLoops ==
    {ForStmt(<<"x">>, IntLit(a), Ident(<<"n">>),
             << <<"Assignment", <<"n">>, Binary(Ident(<<"n">>), "Plus", IntLit(1))>>,
                <<"Assignment", <<"x">>, Binary(Ident(<<"x">>), "Plus", IntLit(5))>>,
                PrintStmt(Ident(<<"x">>)) >>) : a \in 1..MaxRange}

\* Declarations, then one of these statements.
DeclaredPrograms ==
    {Append(Declarations, stmt) :
        stmt \in IdentifierStatements \cup LoopVariableStatements \cup AssigningLoops}

Programs ==
    {prelude \o stmts : prelude \in Preludes,
                        stmts \in UNION {[1..n -> StatementPool] : n \in 0..MaxProgramLen}}
    \cup ExpressionPrograms \cup DeclaredPrograms

\* Evaluator::new(program), for the programs of Programs.
Init ==
    /\ program \in Programs
    /\ file = <<>>
    /\ parser = <<>>
    /\ errors = <<>>
    /\ pc = "evaluate"
    /\ global_scope = EmptyScope
    /\ stack = <<ProgramFrame(program)>>
    /\ stdout = <<>>
    /\ result = Running
    /\ executed = 0
    /\ last = Ok
    /\ tokenizer = LexerNew(<<>>)
    /\ tokens = <<>>

Next == NextEvaluator

Spec == Init /\ [][Next]_vars

(***************************************************************************)
(* The source files interpret is checked on.  A file is its sequence of    *)
(* lines; FileText is the text interpret receives.                         *)
(***************************************************************************)
RECURSIVE FileText(_)
FileText(lines) ==
    IF lines = <<>> THEN <<>>
    ELSE Head(lines) \o <<"\n">> \o FileText(Tail(lines))

\* Well-formed statements.
WellFormedLines ==
    {<<"p", "r", "i", "n", "t", " ", "1", ";">>,
     <<"v", "a", "r", " ", "x", " ", ":", " ", "i", "n", "t", ";">>}

\* Malformed statements, each ending with its own ";".
MalformedLines ==
    {<<"p", "r", "i", "n", "t", " ", "1", ")", ";">>,
     <<"p", "r", "i", "n", "t", " ", ";">>,
     <<"x", " ", "1", " ", "p", "r", "i", "n", "t", " ", "1", ";">>}

MixedFiles == UNION {[1..n -> WellFormedLines \cup MalformedLines] : n \in 0..MaxFileStmts}

\* The scenarios of the specification, the sources of the parser's tests and
\* a for without its end.
ScenarioFiles ==
    {<<<<"p", "r", "i", "n", "t", " ", "2", "1", "4", "7", "4", "8", "3", "6", "4", "8", ";">>>>,
     <<<<"x", " ", ":", "=", " ", "1", ";">>>>,
     <<<<"v", "a", "r", " ", "x", " ", ":", " ", "i", "n", "t", ";">>, <<"f", "o", "r", " ", "x", " ", "i", "n", " ", "1", ".", ".", "2", " ", "d", "o">>,
       <<"p", "r", "i", "n", "t", " ", "x", ";">>>>,
     <<<<"v", "a", "r", " ", "x", " ", ":", " ", "i", "n", "t", " ", ":", "=", " ", "\"", "a", "\"", ";">>>>,
     <<<<"v", "a", "r", " ", "x", " ", ":", " ", "s", "t", "r", "i", "n", "g", " ", ":", "=", " ", "1", ";">>>>,
     <<<<"v", "a", "r", " ", "x", " ", ":", " ", "b", "o", "o", "l", " ", ":", "=", " ", "(", "1", " ", "+", " ", "2", ")", ";">>>>,
     <<<<"v", "a", "r", " ", "x", " ", ":", " ", "i", "n", "t", ";">>, <<"x", " ", ":", "=", " ", "\"", "a", "\"", ";">>>>,
     <<<<"v", "a", "r", " ", "x", " ", ":", " ", "b", "o", "o", "l", " ", ":", "=", " ", "!", "f", "a", "l", "s", "e", ";">>, <<"x", " ", ":", "=", " ", "1", ";">>>>,
     <<<<"v", "a", "r", " ", "i", " ", ":", " ", "i", "n", "t", ";">>, <<"f", "o", "r", " ", "i", " ", "i", "n", " ", "1", ".", ".", "3", " ", "d", "o", " ", "p", "r", "i", "n", "t", " ", "i", ";", " ", "e", "n", "d", " ", "f", "o", "r", ";">>>>,
     <<<<"v", "a", "r", " ", "x", " ", ":", " ", "i", "n", "t", ";">>, <<"f", "o", "r", " ", "x", " ", "i", "n", " ", "1", ".", ".", "5", " ", "d", "o">>, <<" ", " ", " ", " ", "p", "r", "i", "n", "t", " ", "x", ";">>, <<" ", " ", " ", " ", "p", "r", "i", "n", "t", " ", "\"", "h", "e", "l", "l", "o", "\"", ";">>,
       <<"e", "n", "d", " ", "f", "o", "r", ";">>>>,
     <<<<"p", "r", "i", "n", "t", " ", "1", " ", "+", " ", "2", " ", "-", " ", "3", ";">>>>,
     <<<<"p", "r", "i", "n", "t", " ", "1", " ", "+", " ", "2", " ", "*", " ", "3", ";">>>>,
     <<<<"a", "s", "s", "e", "r", "t", " ", "(", "f", "a", "l", "s", "e", ")", ";">>, <<"p", "r", "i", "n", "t", " ", "1", ";">>>>,
     <<<<"v", "a", "r", " ", "x", " ", ":", " ", "i", "n", "t", ";">>, <<"r", "e", "a", "d", " ", "x", ";">>, <<"p", "r", "i", "n", "t", " ", "x", ";">>>>,
     <<<<"v", "a", "r", " ", "x", " ", ":", " ", "i", "n", "t", " ", ":", "=", " ", "1", " ", "+", " ", "2", ";">>, <<"x", " ", ":", "=", " ", "x", " ", "-", " ", "1", ";">>, <<"v", "a", "r", " ", "y", "Y", "_", "1", " ", ":", " ", "s", "t", "r", "i", "n", "g", " ", ":", "=", " ", "\"", "h", "e", "l", "l", "o", "\"", ";">>,
       <<"v", "a", "r", " ", "Z", "z", "2", "_", " ", ":", " ", "b", "o", "o", "l", ";">>>>,
     <<<<"p", "r", "i", "n", "t", " ", "\"", "h", "e", "l", "l", "o", "\"", ";">>, <<"p", "r", "i", "n", "t", " ", "(", "1", " ", "+", " ", "2", ")", ";">>, <<"p", "r", "i", "n", "t", " ", "!", "t", "r", "u", "e", ";">>,
       <<"p", "r", "i", "n", "t", " ", "1", " ", "+", " ", "(", "2", " ", "/", " ", "(", "3", " ", "*", " ", "2", ")", ")", ";">>, <<"p", "r", "i", "n", "t", " ", "1", " ", "=", " ", "1", ";">>>>}

Files == MixedFiles \cup ScenarioFiles

\* interpret(file) up to the call of parse_program: Lexer::new, Parser::new.
InitInterpret ==
    /\ file \in Files
    /\ parser = ParserNew(LexerNew(FileText(file)))
    /\ errors = <<>>
    /\ pc = "parse"
    /\ program = <<>>
    /\ global_scope = EmptyScope
    /\ stack = <<>>
    /\ stdout = <<>>
    /\ result = Running
    /\ executed = 0
    /\ last = Ok
    /\ tokenizer = LexerNew(<<>>)
    /\ tokens = <<>>

NextInterpret ==
    \/ ParseStatement
    \/ ParseProgramReturn
    \/ Interpret
    \/ NextEvaluator

SpecInterpret == InitInterpret /\ [][NextInterpret]_vars

\* What parse_program makes of a source text: its statements and the
\* errors.
RECURSIVE ParseProgramFrom(_, _, _)
ParseProgramAfter(stmt, statements, errs) ==
    ParseProgramFrom(next_token(stmt.p),
                     IF Failed(stmt) THEN statements ELSE Append(statements, stmt.r[2]),
                     IF Failed(stmt) THEN Append(errs, stmt.r[2]) ELSE errs)

ParseProgramFrom(p, statements, errs) ==
    IF p.current_token = EOF THEN [statements |-> statements, errors |-> errs]
    ELSE ParseProgramAfter(parse_statement(p), statements, errs)

Parse(text) == ParseProgramFrom(ParserNew(LexerNew(text)), <<>>, <<>>)

(***************************************************************************)
(* The tokenizer on its own: get_next_token called again and again on the  *)
(* Lexer of one source text.  file is that text.                           *)
(***************************************************************************)
\* The lexemes of the language, one or more for every Token but EOF, each
\* with its token (src/src/token.rs).
Lexemes ==
    << <<<<"+">>, Tok("Plus")>>, <<<<"-">>, Tok("Minus")>>, <<<<"*">>, Tok("Multiplication")>>,
       <<<<"/">>, Tok("Division")>>, <<<<";">>, Tok("SemiColon")>>, <<<<"&">>, Tok("And")>>,
       <<<<"!">>, Tok("Not")>>, <<<<"(">>, Tok("LeftBracket")>>,
       <<<<")">>, Tok("RightBracket")>>, <<<<"=">>, Tok("Equals")>>,
       <<<<">">>, Tok("GreaterThan")>>, <<<<"<">>, Tok("LessThan")>>, <<<<":">>, Tok("Colon")>>,
       <<<<":", "=">>, Tok("Assign")>>, <<<<".", ".">>, Tok("Range")>>,
       <<<<"f", "o", "r">>, Tok("For")>>, <<<<"i", "n">>, Tok("In")>>,
       <<<<"d", "o">>, Tok("Do")>>, <<<<"e", "n", "d">>, Tok("End")>>,
       <<<<"t", "r", "u", "e">>, Tok("True")>>, <<<<"f", "a", "l", "s", "e">>, Tok("False")>>,
       <<<<"v", "a", "r">>, Tok("Var")>>, <<<<"p", "r", "i", "n", "t">>, Tok("Print")>>,
       <<<<"b", "o", "o", "l">>, Tok("BooleanType")>>,
       <<<<"s", "t", "r", "i", "n", "g">>, Tok("StringType")>>,
       <<<<"i", "n", "t">>, Tok("IntegerType")>>,
       <<<<"a", "s", "s", "e", "r", "t">>, Tok("Assert")>>,
       <<<<"r", "e", "a", "d">>, Tok("Read")>>, <<<<"x">>, <<"Identifier", <<"x">>>>>>,
       <<<<"y", "Y", "_", "1">>, <<"Identifier", <<"y", "Y", "_", "1">>>>>>,
       <<<<"p", "r", "i", "n", "t", "x">>, <<"Identifier", <<"p", "r", "i", "n", "t", "x">>>>>>,
       <<<<"F", "o", "r">>, <<"Identifier", <<"F", "o", "r">>>>>>,
       <<<<"0">>, <<"IntegerConstant", <<"0">>>>>>,
       <<<<"1", "2">>, <<"IntegerConstant", <<"1", "2">>>>>>,
       <<<<"0", "0", "7">>, <<"IntegerConstant", <<"0", "0", "7">>>>>>,
       <<<<"\"", "\"">>, <<"StringValue", <<>>>>>>,
       <<<<"\"", "a", "b", "\"">>, <<"StringValue", <<"a", "b">>>>>>,
       <<<<"\"", "a", " ", "b", ";", "\"">>, <<"StringValue", <<"a", " ", "b", ";">>>>>>,
       <<<<"\"", "a", "\\", "n", "\\", "\"", "b", "\"">>, <<"StringValue", <<"a", "\n", "\"", "b">>>>>>,
       <<<<"\"", "f", "o", "r", "\"">>, <<"StringValue", <<"f", "o", "r">>>>>>,
       <<<<",">>, Tok("Illegal")>>, <<<<".">>, Tok("Illegal")>>, <<<<"_">>, Tok("Illegal")>>,
       <<<<"#">>, Tok("Illegal")>> >>

\* The lexemes, and the empty source, whitespace alone, unterminated strings,
\* unknown escapes and sources of several lexemes.
LexerSources ==
    {Lexemes[k][1] : k \in 1..Len(Lexemes)}
    \cup
    {<<>>,
     <<" ", "\n", "\t">>,
     <<"\"", "a", "b">>,
     <<"\"", "a", "\\">>,
     <<"\"", "\\", "q", "\"">>,
     <<"x", ":", "=", "1", ";">>,
     <<"a", " ", "\n", " ", "b">>,
     <<"1", ".", ".", "2">>,
     <<"1", "2", "a", "b">>,
     <<"x", ".", "y">>,
     <<"\"", "a", "\"", " ", "\"">>,
     <<"p", "r", "i", "n", "t", " ", "\"", "a", "\"", ";">>,
     <<"1", " ", ".", ".", " ", "2">>}

\* Lexer::new(source), and no call of get_next_token made yet.
InitLexer ==
    /\ file \in LexerSources
    /\ tokenizer = LexerNew(file)
    /\ tokens = <<>>
    /\ parser = <<>>
    /\ errors = <<>>
    /\ pc = "lex"
    /\ program = <<>>
    /\ global_scope = EmptyScope
    /\ stack = <<>>
    /\ stdout = <<>>
    /\ result = Running
    /\ executed = 0
    /\ last = Ok

\* get_next_token returns its token, or the process panics inside it.
GetNextTokenReturn(got) ==
    /\ tokenizer' = got.lexer
    /\ tokens' = IF got.panic THEN tokens ELSE Append(tokens, got.token)
    /\ result' = IF got.panic THEN Panic ELSE result
    /\ pc' = IF got.panic THEN "exit" ELSE pc

\* One call of get_next_token.
GetNextToken ==
    /\ pc = "lex"
    /\ Len(tokens) < MaxCalls
    /\ GetNextTokenReturn(get_next_token(tokenizer))
    /\ UNCHANGED <<file, parser, errors, program, global_scope, stack, stdout, executed,
                   last>>

SpecLexer == InitLexer /\ [][GetNextToken]_vars

(***************************************************************************)
(* Properties of the evaluator, checked under Spec.                        *)
(***************************************************************************)
\* This step is a whole evaluate_statement call on a statement of this kind.
Evaluated(kind) ==
    /\ AtStatement
    /\ Stmt[1] = kind
    /\ executed' = executed + 1

IsErr(r) == r[1] = "Err"

\* C1: executing VarDeclare(name, type) when name is already in the
\* environment fails with VariableAlreadyInitialized(name) and leaves the
\* entry's declared type and stored value unchanged.
C1_VarDeclareExistingFails ==
    [][(Evaluated("VarInitialization") /\ Stmt[2] \in DOMAIN global_scope)
          => /\ last' = Err(VariableAlreadyInitialized(Stmt[2]))
             /\ global_scope' = global_scope]_vars

\* C5: evaluation is fail-fast.  The first statement to return an error, at
\* any loop depth, ends every active loop and is what evaluate_program
\* returns; after it no statement is evaluated and the environment, the
\* output and the result never change.
C5_FailFast ==
    [][/\ (IsErr(last') /\ ~IsErr(last))
             => (result' = last' /\ stack' = <<>> /\ pc' = "exit")
       /\ IsErr(last)
             => UNCHANGED <<global_scope, stdout, executed, last, result>>
       /\ result # Running
             => UNCHANGED <<global_scope, stdout, executed, last, result>>]_vars

\* The error came from the second level of NestedLoops, in its first
\* iteration, with iterations of both loops still to come: only the first
\* print happened.
C5_Witness ==
    /\ program = << <<"VarInitialization", <<"x">>, "Integer">>, NestedLoops >>
    /\ result = Err(MismatchedTypes)
    /\ stdout = <<"1">>
    /\ executed = 6
    /\ stack = <<>>

\* The runtime tag a declared type admits.
TagOf(type_def) ==
    CASE type_def = "Boolean" -> "Bool"
      [] type_def = "Integer" -> "Integer"
      [] type_def = "String" -> "String"

\* C6: in every reachable state of the environment, every entry that holds
\* a value holds one whose runtime tag matches the entry's declared type.
C6_TypeConformance ==
    \A n \in DOMAIN global_scope :
        global_scope[n][2][1] = "Some" => global_scope[n][2][2][1] = TagOf(global_scope[n][1])

\* A line read from the input is stored in y, and the statement after it
\* failed on the type of x.
C6_Witness ==
    /\ program = << <<"NewAssignment", <<"x">>, "Integer", IntLit(1)>>,
                    <<"VarInitialization", <<"y">>, "String">>,
                    <<"Read", <<"y">>>>,
                    <<"Assignment", <<"x">>, StrLit(<<"a">>)>> >>
    /\ result = Err(MismatchedTypes)
    /\ global_scope[<<"x">>] = <<"Integer", Some(<<"Integer", 1>>)>>
    /\ global_scope[<<"y">>] = <<"String", Some(<<"String", <<"a", "\n">>>>)>>

\* The decimal forms of a..b, concatenated.
RECURSIVE Decimals(_, _)
Decimals(a, b) == IF a > b THEN <<>> ELSE DisplayInt(a) \o Decimals(a + 1, b)

\* Declarations that leave x an Integer variable, then
\* for x in a..b do print x; end for; with a <= b.
CountingProgram ==
    /\ program # <<>>
    /\ SubSeq(program, 1, Len(program) - 1) \in
           (Preludes \ {<<>>}) \cup {<< <<"VarInitialization", <<"x">>, "Integer">> >>,
                                     << <<"NewAssignment", <<"x">>, "Integer", IntLit(1)>> >>}
    /\ program[Len(program)] \in CountingLoops
    /\ program[Len(program)][3][2] <= program[Len(program)][4][2]

\* C7: for a <= b and an Integer loop variable, for i in a..b do print i;
\* end for; runs its body exactly b - a + 1 times; at the start of the
\* iteration after m runs of the body i is bound to (Integer, a + m) and the
\* output is the decimal forms of a..a+m-1; at the end the output is the
\* decimal forms of a..b with no separator.
C7_ForInclusiveRange ==
    CountingProgram =>
        LET a == program[Len(program)][3][2]
            b == program[Len(program)][4][2]
            m == executed - Len(program)
        IN  /\ (Len(stack) = 2 /\ Top.idx = 1)
                  => /\ m <= b - a
                     /\ global_scope[<<"x">>] = <<"Integer", Some(<<"Integer", a + m>>)>>
                     /\ stdout = Decimals(a, a + m - 1)
            /\ result # Running
                  => /\ result = Ok
                     /\ m = b - a + 1
                     /\ stdout = Decimals(a, b)

\* var x : int; for x in 1..3 do print x; end for; has returned and
\* printed 123.
C7_Witness ==
    /\ program = << <<"VarInitialization", <<"x">>, "Integer">>,
                    ForStmt(<<"x">>, IntLit(1), IntLit(3), <<PrintStmt(Ident(<<"x">>))>>) >>
    /\ result = Ok
    /\ stdout = <<"1", "2", "3">>
    /\ executed = 5
    /\ global_scope[<<"x">>] = <<"Integer", Some(<<"Integer", 3>>)>>

AssertThenPrint == <<AssertStmt(BoolLit(FALSE)), PrintStmt(IntLit(1))>>

AssertThenPrintOutput ==
    <<"A", "s", "s", "e", "r", "t", "i", "o", "n", " ",
      "f", "a", "i", "l", "e", "d", ":", " ", "f", "a", "l", "s", "e", "\n", "1">>

\* C8: an Assert whose expression evaluates to Bool(false) writes the line
\* "Assertion failed: <expression>", returns Ok, leaves the environment as
\* it is and evaluation goes on with the next statement (assert (false);
\* print 1; still prints 1); an expression whose value is not a Bool makes
\* Assert fail with MismatchedTypes, and a true one does nothing.
C8_AssertAdvisory ==
    [][/\ (Evaluated("Assert") /\ evaluate_expression(global_scope, Stmt[2])[1] = "Ok")
             => LET val == evaluate_expression(global_scope, Stmt[2])[2]
                IN  /\ val = <<"Bool", FALSE>>
                          => /\ stdout' = stdout \o <<"A", "s", "s", "e", "r", "t", "i", "o", "n",
                                                      " ", "f", "a", "i", "l", "e", "d", ":", " ">>
                                                 \o DisplayExpression(Stmt[2]) \o <<"\n">>
                             /\ last' = Ok
                             /\ result' = Running
                             /\ global_scope' = global_scope
                             /\ stack' = Continue(stack)
                    /\ val = <<"Bool", TRUE>>
                          => (last' = Ok /\ stdout' = stdout /\ global_scope' = global_scope)
                    /\ val[1] # "Bool"
                          => (last' = Err(MismatchedTypes) /\ result' = last'
                              /\ stdout' = stdout /\ global_scope' = global_scope)
       /\ (program = AssertThenPrint /\ result' # Running)
             => (result' = Ok /\ stdout' = AssertThenPrintOutput /\ executed' = 2)]_vars

\* assert (false); print 1; has returned Ok and printed the line and the 1.
C8_Witness ==
    /\ program = AssertThenPrint
    /\ result = Ok
    /\ stdout = AssertThenPrintOutput

\* C9: Assign(name, expr) on a name that is not in the environment fails
\* with VariableNotInitialized(name) whatever expr is, and leaves the
\* environment unchanged; no Assign ever adds a name to the environment.
C9_AssignDeclaredBeforeUse ==
    [][/\ (Evaluated("Assignment") /\ Stmt[2] \notin DOMAIN global_scope)
             => /\ last' = Err(VariableNotInitialized(Stmt[2]))
                /\ result' = last'
                /\ global_scope' = global_scope
       /\ Evaluated("Assignment") => DOMAIN global_scope' = DOMAIN global_scope]_vars

\* y := 1 / 0; with y undeclared failed on the lookup of y: the division,
\* which panics when evaluated, was not reached.
C9_Witness ==
    /\ program # <<>>
    /\ program[1] = <<"Assignment", <<"y">>, Binary(IntLit(1), "Division", IntLit(0))>>
    /\ result = Err(VariableNotInitialized(<<"y">>))
    /\ global_scope = EmptyScope
    /\ executed = 1

(***************************************************************************)
(* Properties of the pipeline, checked under SpecInterpret.                *)
(***************************************************************************)
ChainFile == <<<<"p", "r", "i", "n", "t", " ", "1", " ", "+", " ", "2", " ", "-", " ", "3", ";">>>>

\* C2: an unparenthesised expression with two or more binary operators
\* parses without a syntax error as a right-nested chain: print 1 + 2 - 3;
\* yields Print(Binary(1, Plus, Binary(2, Minus, 3))) with an empty error
\* list and evaluates to 0.
C2_BinaryChainRightNested ==
    file = ChainFile =>
        /\ pc \in {"interpret", "evaluate", "exit"}
              => /\ errors = <<>>
                 /\ program = <<PrintStmt(Binary(IntLit(1), "Plus",
                                                 Binary(IntLit(2), "Minus", IntLit(3))))>>
        /\ pc = "exit" => (result = Ok /\ stdout = <<"0">>)

\* What parse_program makes of one line on its own.
ParseLine(line) == Parse(FileText(<<line>>))

Malformed(line) == ParseLine(line).errors # <<>>

\* The errors, and the statements, of the lines of a file parsed one by one.
RECURSIVE LineErrors(_)
LineErrors(lines) ==
    IF lines = <<>> THEN <<>>
    ELSE ParseLine(Head(lines)).errors \o LineErrors(Tail(lines))

RECURSIVE LineStatements(_)
LineStatements(lines) ==
    IF lines = <<>> THEN <<>>
    ELSE ParseLine(Head(lines)).statements \o LineStatements(Tail(lines))

\* Exactly two lines of the file are malformed, and each is followed by a
\* well-formed line.
TwoIndependentMalformed(lines) ==
    /\ Cardinality({k \in 1..Len(lines) : Malformed(lines[k])}) = 2
    /\ \A k \in 1..Len(lines) :
          Malformed(lines[k]) => (k < Len(lines) /\ ~Malformed(lines[k + 1]))

\* The statements of the well-formed lines after the first malformed line.
RECURSIVE WellFormedAfterMalformed(_, _)
WellFormedAfterMalformed(lines, seen) ==
    IF lines = <<>> THEN <<>>
    ELSE IF Malformed(Head(lines)) THEN WellFormedAfterMalformed(Tail(lines), TRUE)
    ELSE (IF seen THEN ParseLine(Head(lines)).statements ELSE <<>>)
         \o WellFormedAfterMalformed(Tail(lines), seen)

\* s is t with some of its elements left out.
RECURSIVE IsSubSeq(_, _)
IsSubSeq(s, t) ==
    IF s = <<>> THEN TRUE
    ELSE IF t = <<>> THEN FALSE
    ELSE IF Head(s) = Head(t) THEN IsSubSeq(Tail(s), Tail(t))
    ELSE IsSubSeq(s, Tail(t))

\* C3 as stated: a source with exactly two independent malformed
\* statements, each followed by well-formed statements, records exactly two
\* syntax errors, and the well-formed statements after the first malformed
\* one are parsed into the program.
C3_ExactlyTwoErrors ==
    (pc = "interpret" /\ file \in MixedFiles /\ TwoIndependentMalformed(file))
        => /\ Len(errors) = 2
           /\ IsSubSeq(WellFormedAfterMalformed(file, FALSE), program)

\* C3 as amended: such a source records at least two syntax errors, namely
\* the errors each malformed statement records when parsed on its own, in
\* order (at least one each, and one more for each further attempt to parse
\* a statement from the tokens left before the statement's ";" that fails);
\* every well-formed statement is parsed into the program as when parsed on
\* its own, in order.
C3_ErrorsAccumulate ==
    (pc = "interpret" /\ file \in MixedFiles)
        => /\ errors = LineErrors(file)
           /\ program = LineStatements(file)
           /\ TwoIndependentMalformed(file)
                 => /\ Len(errors) >= 2
                    /\ IsSubSeq(WellFormedAfterMalformed(file, FALSE), program)

\* print 1); print 1; x 1 print 1; var x : int; is parsed: three errors,
\* and both well-formed statements are in the program.
C3_Witness ==
    /\ pc = "interpret"
    /\ file = <<<<"p", "r", "i", "n", "t", " ", "1", ")", ";">>, <<"p", "r", "i", "n", "t", " ", "1", ";">>, <<"x", " ", "1", " ", "p", "r", "i", "n", "t", " ", "1", ";">>, <<"v", "a", "r", " ", "x", " ", ":", " ", "i", "n", "t", ";">>>>
    /\ TwoIndependentMalformed(file)
    /\ errors = << <<"ExpectedSemiColon", Tok("RightBracket")>>,
                   <<"UnexpectedToken", Tok("SemiColon")>>,
                   <<"ExpectedAssignment", <<"IntegerConstant", <<"1">>>>>> >>
    /\ program = <<PrintStmt(IntLit(1)), PrintStmt(IntLit(1)),
                   <<"VarInitialization", <<"x">>, "Integer">>>>

\* C4: in interpret, when parsing produced a non-empty error list the
\* evaluator is never constructed or run: no statement is evaluated, the
\* only output is the list of the errors, and interpret fails; evaluation
\* starts only when the error list is empty.
C4_NoEvaluationAfterSyntaxErrors ==
    /\ errors # <<>>
          => /\ pc # "evaluate"
             /\ executed = 0
             /\ stack = <<>>
             /\ global_scope = EmptyScope
             /\ pc # "exit" => (stdout = <<>> /\ result = Running)
             /\ pc = "exit" => (result = Err(SyntaxError) /\ stdout = ErrorLines(errors))
    /\ (pc = "evaluate" \/ executed > 0 \/ stack # <<>>) => errors = <<>>

\* interpret has returned for a source with a parsed statement and an
\* error: the statement was not evaluated.
C4_Witness ==
    /\ pc = "exit"
    /\ file = <<<<"p", "r", "i", "n", "t", " ", "1", ";">>, <<"p", "r", "i", "n", "t", " ", ";">>>>
    /\ program = <<PrintStmt(IntLit(1))>>
    /\ errors = << <<"ExpectedOperand", Tok("SemiColon")>> >>
    /\ result = Err(SyntaxError)
    /\ executed = 0

MismatchFile == <<<<"v", "a", "r", " ", "x", " ", ":", " ", "i", "n", "t", " ", ":", "=", " ", "\"", "a", "\"", ";">>>>

\* C10: a VarInit or Assign whose expression evaluates to a value whose
\* runtime tag differs from the variable's declared type fails with
\* MismatchedTypes and leaves the environment unchanged (VarInit does not
\* add the name, Assign keeps the previous type and value); the source has
\* parsed with no syntax error, as var x : int := "a"; does.
C10_MismatchedTypesAtEvaluation ==
    [][/\ (/\ Evaluated("NewAssignment")
           /\ evaluate_expression(global_scope, Stmt[4])[1] = "Ok"
           /\ evaluate_expression(global_scope, Stmt[4])[2][1] # TagOf(Stmt[3]))
             => /\ errors = <<>>
                /\ last' = Err(MismatchedTypes)
                /\ result' = last'
                /\ global_scope' = global_scope
       /\ (/\ Evaluated("Assignment")
           /\ Stmt[2] \in DOMAIN global_scope
           /\ evaluate_expression(global_scope, Stmt[3])[1] = "Ok"
           /\ evaluate_expression(global_scope, Stmt[3])[2][1]
                 # TagOf(global_scope[Stmt[2]][1]))
             => /\ errors = <<>>
                /\ last' = Err(MismatchedTypes)
                /\ result' = last'
                /\ global_scope' = global_scope
       /\ (file = MismatchFile /\ pc' = "interpret")
             => /\ errors' = <<>>
                /\ program' = << <<"NewAssignment", <<"x">>, "Integer", StrLit(<<"a">>)>> >>
       /\ (file = MismatchFile /\ pc' = "exit")
             => /\ result' = Err(MismatchedTypes)
                /\ global_scope' = EmptyScope]_vars

\* var x : bool := !false; x := 1; has failed on its second statement and x
\* is still the Boolean true.
C10_Witness ==
    /\ file = <<<<"v", "a", "r", " ", "x", " ", ":", " ", "b", "o", "o", "l", " ", ":", "=", " ", "!", "f", "a", "l", "s", "e", ";">>, <<"x", " ", ":", "=", " ", "1", ";">>>>
    /\ errors = <<>>
    /\ result = Err(MismatchedTypes)
    /\ executed = 2
    /\ DOMAIN global_scope = {<<"x">>}
    /\ global_scope[<<"x">>] = <<"Boolean", Some(<<"Bool", TRUE>>)>>

(***************************************************************************)
(* Properties of the printer and the tokenizer.                            *)
(***************************************************************************)
\* The statements impl Display for Statement renders.
Rendered == {"VarInitialization", "NewAssignment", "Assignment", "Print", "For"}

\* C11: every statement parse_program produced, of the kinds VarDeclare,
\* VarInit, Assign, Print and For, rendered with its display form and parsed
\* again, gives no syntax error and the same statement.
C11_PrinterRoundTrip ==
    pc = "interpret" =>
        \A i \in 1..Len(program) :
            program[i][1] \in Rendered =>
                Parse(DisplayStatement(program[i]))
                    = [statements |-> <<program[i]>>, errors |-> <<>>]

\* The tokens whose lexeme is fixed: the single-character tokens, ":=", ".."
\* and the keywords.
FixedLexeme(token) ==
    token[1] \notin {"Identifier", "IntegerConstant", "StringValue", "Illegal", "EOF"}

\* C12: on a source that is exactly one lexeme, the first get_next_token call
\* returns that lexeme's token and the second returns EOF; the display form
\* of a single-character or keyword token is the lexeme.
C12_TokenizerRoundTrip ==
    \A k \in 1..Len(Lexemes) :
        file = Lexemes[k][1] =>
            /\ result = Running
            /\ Len(tokens) >= 1 => tokens[1] = Lexemes[k][2]
            /\ Len(tokens) >= 2 => tokens[2] = EOF
            /\ Len(tokens) >= 1 /\ FixedLexeme(Lexemes[k][2])
                    => DisplayToken(tokens[1]) = file

\* ":=" gave Assign, displayed ":=", then EOF.
C12_Witness ==
    /\ file = <<":", "=">>
    /\ tokens = <<Tok("Assign"), EOF>>
    /\ DisplayToken(tokens[1]) = file

\* C13: once get_next_token has returned EOF every later call returns EOF,
\* and a source of n characters has returned EOF by call n + 1 at the latest.
C13_EOFAbsorbing ==
    /\ \A i, j \in 1..Len(tokens) : i < j /\ tokens[i] = EOF => tokens[j] = EOF
    /\ Len(tokens) > Len(tokenizer.source) => tokens[Len(tokens)] = EOF

\* The source ends inside a string: the string's token, then EOF twice.
C13_Witness ==
    /\ file = <<"\"", "a", "b">>
    /\ tokens = <<<<"StringValue", <<"a", "b">>>>, EOF, EOF>>

(***************************************************************************)
(* Properties of expression evaluation, checked under Spec.                *)
(***************************************************************************)
\* What an expression evaluates to in the current environment.
ValueOf(exp) == evaluate_expression(global_scope, exp)

\* This step is evaluate_print on a Binary expression.
BinaryPrinted == Evaluated("Print") /\ Stmt[2][1] = "Binary"

\* The strings of Operands, smallest first.
StrOrder == << <<>>, <<"a">>, <<"a", "b">>, <<"b">> >>

Rank(s) == CHOOSE k \in 1..Len(StrOrder) : StrOrder[k] = s

\* res is what the operator table gives for op on the values a and b.
Dispatched(res, a, op, b) ==
    IF a[1] # b[1] THEN res = Err(MismatchedTypes)
    ELSE CASE a[1] = "Integer" ->
                (CASE op = "Plus" -> res = <<"Ok", <<"Integer", a[2] + b[2]>>>>
                   [] op = "Minus" -> res = <<"Ok", <<"Integer", a[2] - b[2]>>>>
                   [] op = "Multiplication" -> res = <<"Ok", <<"Integer", a[2] * b[2]>>>>
                   [] op = "Division" ->
                        IF b[2] = 0 THEN res = Panic
                        ELSE res[1] = "Ok" /\ res[2][1] = "Integer"
                   [] op = "Equals" -> res = <<"Ok", <<"Bool", a[2] = b[2]>>>>
                   [] op = "LessThan" -> res = <<"Ok", <<"Bool", a[2] < b[2]>>>>
                   [] op = "GreaterThan" -> res = <<"Ok", <<"Bool", a[2] > b[2]>>>>
                   [] op = "And" -> res = Err(UnsupportedOperation))
           [] a[1] = "Bool" ->
                (CASE op = "And" -> res = <<"Ok", <<"Bool", a[2] /\ b[2]>>>>
                   [] op = "Equals" -> res = <<"Ok", <<"Bool", a[2] = b[2]>>>>
                   [] op = "LessThan" ->
                        res = <<"Ok", <<"Bool", a[2] = FALSE /\ b[2] = TRUE>>>>
                   [] op = "GreaterThan" ->
                        res = <<"Ok", <<"Bool", a[2] = TRUE /\ b[2] = FALSE>>>>
                   [] op \in {"Plus", "Minus", "Multiplication", "Division"} ->
                        res = Err(UnsupportedOperation))
           [] a[1] = "String" ->
                (CASE op = "Plus" -> res = <<"Ok", <<"String", a[2] \o b[2]>>>>
                   [] op = "Equals" -> res = <<"Ok", <<"Bool", a[2] = b[2]>>>>
                   [] op = "LessThan" -> res = <<"Ok", <<"Bool", Rank(a[2]) < Rank(b[2])>>>>
                   [] op = "GreaterThan" ->
                        res = <<"Ok", <<"Bool", Rank(a[2]) > Rank(b[2])>>>>
                   [] op \in {"Minus", "Multiplication", "Division", "And"} ->
                        res = Err(UnsupportedOperation))

\* C14: a binary operator on two operand values gives what the table of the
\* pairing says: Integer arithmetic and comparison, Bool & and comparison
\* with false < true, String concatenation and lexicographic comparison,
\* UnsupportedOperation for an operator the pairing does not list and
\* MismatchedTypes for two values of different types; print shows the value
\* or fails with the error.  A zero divisor ends the process.
C14_BinaryDispatch ==
    [][BinaryPrinted /\ ValueOf(Stmt[2][2])[1] = "Ok" /\ ValueOf(Stmt[2][4])[1] = "Ok"
       => /\ Dispatched(ValueOf(Stmt[2]), ValueOf(Stmt[2][2])[2], Stmt[2][3],
                        ValueOf(Stmt[2][4])[2])
          /\ last' = IF ValueOf(Stmt[2])[1] = "Ok" THEN Ok ELSE ValueOf(Stmt[2])
          /\ ValueOf(Stmt[2])[1] = "Ok"
                => stdout' = stdout \o DisplayValue(ValueOf(Stmt[2])[2])]_vars

\* print "b" < "ab"; printed false.
C14_Witness ==
    /\ program = <<PrintStmt(Binary(StrLit(<<"b">>), "LessThan", StrLit(<<"a", "b">>)))>>
    /\ executed = 1
    /\ last = Ok
    /\ stdout = <<"f", "a", "l", "s", "e">>

\* C17: a Binary expression whose left operand fails has the left operand's
\* failure as its result, whatever the right operand and the operator are;
\* one whose left operand has a value and whose right operand fails has the
\* right operand's failure, false & e included.
C17_NoShortCircuit ==
    [][BinaryPrinted
       => /\ ValueOf(Stmt[2][2])[1] # "Ok" => last' = ValueOf(Stmt[2][2])
          /\ ValueOf(Stmt[2][2])[1] = "Ok" /\ ValueOf(Stmt[2][4])[1] # "Ok"
                => last' = ValueOf(Stmt[2][4])
          /\ ValueOf(Stmt[2][2])[1] # "Ok" \/ ValueOf(Stmt[2][4])[1] # "Ok"
                => stdout' = stdout]_vars

\* print false & u; with u undeclared failed with u's error.
C17_Witness ==
    /\ program = <<PrintStmt(Binary(BoolLit(FALSE), "And", Ident(<<"u">>)))>>
    /\ executed = 1
    /\ result = Err(VariableNotInitialized(<<"u">>))
    /\ stdout = <<>>

\* The quotient q of a by b, b not zero, truncated toward zero: the
\* remainder a - q * b is smaller than b in absolute value and is zero or
\* has the sign of a.
Truncated(q, a, b) ==
    /\ (a - q * b) < (IF b < 0 THEN -b ELSE b)
    /\ (q * b - a) < (IF b < 0 THEN -b ELSE b)
    /\ a - q * b = 0 \/ (a - q * b < 0) = (a < 0)

\* C18: a / b on Integers with b not zero is the Integer quotient truncated
\* toward zero, for every combination of signs; (0 - 7) / 2 and 7 / (0 - 2)
\* print -3.
C18_DivisionTruncates ==
    [][/\ BinaryPrinted
       /\ Stmt[2][3] = "Division"
       /\ ValueOf(Stmt[2][2])[1] = "Ok" /\ ValueOf(Stmt[2][4])[1] = "Ok"
       /\ ValueOf(Stmt[2][2])[2][1] = "Integer" /\ ValueOf(Stmt[2][4])[2][1] = "Integer"
       /\ ValueOf(Stmt[2][4])[2][2] # 0
       => /\ ValueOf(Stmt[2])[1] = "Ok"
          /\ ValueOf(Stmt[2])[2][1] = "Integer"
          /\ Truncated(ValueOf(Stmt[2])[2][2], ValueOf(Stmt[2][2])[2][2],
                       ValueOf(Stmt[2][4])[2][2])
          /\ stdout' = stdout \o DisplayInt(ValueOf(Stmt[2])[2][2])
          /\ Stmt[2] \in {Binary(Binary(IntLit(0), "Minus", IntLit(7)), "Division", IntLit(2)),
                          Binary(IntLit(7), "Division", Binary(IntLit(0), "Minus", IntLit(2)))}
                => stdout' = stdout \o <<"-", "3">>]_vars

\* print (0 - 7) / 2; printed -3.
C18_Witness ==
    /\ program = <<PrintStmt(Binary(Binary(IntLit(0), "Minus", IntLit(7)), "Division",
                                    IntLit(2)))>>
    /\ executed = 1
    /\ last = Ok
    /\ stdout = <<"-", "3">>

(***************************************************************************)
(* Properties of identifiers and of for loops, checked under Spec.         *)
(***************************************************************************)
\* exp is an Identifier that is undeclared, or declared and without a value.
Unset(exp) ==
    /\ exp[1] = "Identifier"
    /\ exp[2] \notin DOMAIN global_scope \/ global_scope[exp[2]][2] = None

\* A VarInit, an Assign to a declared name, a Print or an Assert whose
\* expression is such an Identifier fails with VariableNotInitialized(name).
UnsetIdentifierFails ==
    /\ Evaluated("NewAssignment") /\ Unset(Stmt[4])
            => last' = Err(VariableNotInitialized(Stmt[4][2]))
    /\ Evaluated("Assignment") /\ Stmt[2] \in DOMAIN global_scope /\ Unset(Stmt[3])
            => last' = Err(VariableNotInitialized(Stmt[3][2]))
    /\ Evaluated("Print") /\ Unset(Stmt[2])
            => last' = Err(VariableNotInitialized(Stmt[2][2]))
    /\ Evaluated("Assert") /\ Unset(Stmt[2])
            => last' = Err(VariableNotInitialized(Stmt[2][2]))

\* C15 as stated: the error of an unset Identifier is the result of every
\* statement that evaluates it, a For with it as start or end bound included.
C15_UnsetIdentifierEverywhere ==
    [][/\ UnsetIdentifierFails
       /\ Evaluated("For") /\ Unset(Stmt[3])
               => last' = Err(VariableNotInitialized(Stmt[3][2]))
       /\ Evaluated("For") /\ ValueOf(Stmt[3])[1] = "Ok" /\ Unset(Stmt[4])
               => last' = Err(VariableNotInitialized(Stmt[4][2]))]_vars

\* C15, amended: the error of an unset Identifier is the result of a VarInit,
\* Assign, Print or Assert that evaluates it; a For with it as start or end
\* bound fails with MismatchedTypes.
C15_UnsetIdentifier ==
    [][/\ UnsetIdentifierFails
       /\ Evaluated("For") /\ Unset(Stmt[3]) => last' = Err(MismatchedTypes)
       /\ Evaluated("For") /\ ValueOf(Stmt[3])[1] = "Ok" /\ Unset(Stmt[4])
               => last' = Err(MismatchedTypes)]_vars

\* for x in 1..u with u undeclared failed with MismatchedTypes.
C15_Witness ==
    /\ program = Append(Declarations,
                        ForStmt(<<"x">>, IntLit(1), Ident(<<"u">>),
                                <<PrintStmt(Ident(<<"x">>))>>))
    /\ executed = 5
    /\ result = Err(MismatchedTypes)

\* This step is evaluate_for on a For whose bounds are Integers.
ForOnIntegers ==
    /\ Evaluated("For")
    /\ ValueOf(Stmt[3])[1] = "Ok" /\ ValueOf(Stmt[3])[2][1] = "Integer"
    /\ ValueOf(Stmt[4])[1] = "Ok" /\ ValueOf(Stmt[4])[2][1] = "Integer"

\* evaluate_program returned e at this step, which changed nothing else.
Rejected(e) ==
    /\ last' = e
    /\ result' = e
    /\ UNCHANGED <<global_scope, stdout>>

\* C16: a For with Integer bounds fails with VariableNotInitialized(name)
\* when its loop variable is not in the environment and with MismatchedTypes
\* when it is declared Boolean or String, running no body statement and
\* leaving the environment as it was; a loop variable declared Integer and
\* never assigned is accepted.
C16_LoopVariable ==
    [][ForOnIntegers
       => /\ Stmt[2] \notin DOMAIN global_scope
                => Rejected(Err(VariableNotInitialized(Stmt[2])))
          /\ Stmt[2] \in DOMAIN global_scope
                => /\ global_scope[Stmt[2]][1] \in {"Boolean", "String"}
                        => Rejected(Err(MismatchedTypes))
                   /\ global_scope[Stmt[2]] = <<"Integer", None>>
                        => IF ValueOf(Stmt[3])[2][2] <= ValueOf(Stmt[4])[2][2]
                           THEN /\ result' = Running
                                /\ Len(stack') = Len(stack) + 1
                                /\ stack'[Len(stack')].stmts = Stmt[5]
                                /\ global_scope'[Stmt[2]]
                                       = <<"Integer", Some(ValueOf(Stmt[3])[2])>>
                           ELSE last' = Ok /\ UNCHANGED global_scope]_vars

\* for b in 1..2 with b declared bool failed with MismatchedTypes.
C16_Witness ==
    /\ program = Append(Declarations,
                        ForStmt(<<"b">>, IntLit(1), IntLit(2), <<PrintStmt(Ident(<<"b">>))>>))
    /\ executed = 5
    /\ result = Err(MismatchedTypes)
    /\ stdout = <<>>
    /\ global_scope[<<"b">>] = <<"Boolean", None>>

\* How often the body of the loop of AssigningLoops from a to n = 2 runs.
Runs(a) == IF a > 2 THEN 0 ELSE 2 - a + 1

\* C20: the body of for x in a..n, which adds 1 to n and 5 to x and prints
\* x, runs max(0, n - a + 1) times for the n the loop started with, each
\* iteration on the next value of the range; a For whose start is above its
\* end runs no body statement and leaves the environment as it was.
C20_ForBoundsOnce ==
    /\ [](\A a \in 1..MaxRange :
             program = Append(Declarations,
                              ForStmt(<<"x">>, IntLit(a), Ident(<<"n">>),
                                      << <<"Assignment", <<"n">>,
                                           Binary(Ident(<<"n">>), "Plus", IntLit(1))>>,
                                         <<"Assignment", <<"x">>,
                                           Binary(Ident(<<"x">>), "Plus", IntLit(5))>>,
                                         PrintStmt(Ident(<<"x">>)) >>))
             => /\ executed <= 5 + 3 * Runs(a)
                /\ result # Running
                       => /\ result = Ok
                          /\ executed = 5 + 3 * Runs(a)
                          /\ stdout = Decimals(a + 5, 2 + 5)
                          /\ global_scope[<<"n">>]
                                 = <<"Integer", Some(<<"Integer", 2 + Runs(a)>>)>>
                          /\ a > 2 => global_scope[<<"x">>] = <<"Integer", None>>)
    /\ [][/\ ForOnIntegers
           /\ Stmt[2] \in DOMAIN global_scope
           /\ global_scope[Stmt[2]][1] = "Integer"
           /\ ValueOf(Stmt[3])[2][2] > ValueOf(Stmt[4])[2][2]
           => /\ last' = Ok
              /\ Len(stack') <= Len(stack)
              /\ UNCHANGED <<global_scope, stdout>>]_vars

\* for x in 1..n with n = 2 ran its body twice and printed 6 and 7.
C20_Witness ==
    /\ program = Append(Declarations,
                        ForStmt(<<"x">>, IntLit(1), Ident(<<"n">>),
                                << <<"Assignment", <<"n">>,
                                     Binary(Ident(<<"n">>), "Plus", IntLit(1))>>,
                                   <<"Assignment", <<"x">>,
                                     Binary(Ident(<<"x">>), "Plus", IntLit(5))>>,
                                   PrintStmt(Ident(<<"x">>)) >>))
    /\ result = Ok
    /\ executed = 11
    /\ stdout = <<"6", "7">>

(***************************************************************************)
(* Termination of parse_program, checked under SpecInterpret.              *)
(***************************************************************************)
\* The tokens a parser still has before EOF, its current token included.
RECURSIVE TokensLeft(_)
TokensLeft(p) == IF p.current_token = EOF THEN 0 ELSE 1 + TokensLeft(next_token(p))

\* The parser at each of the tokens it still has, and at EOF.
RECURSIVE Positions(_)
Positions(p) == IF p.current_token = EOF THEN {p} ELSE {p} \cup Positions(next_token(p))

\* parse_statement, called at q, returned stmt: followed by next_token, as in
\* both loops, it has consumed a token or more; if it ran into EOF it failed.
StatementConsumes(q, stmt) ==
    /\ TokensLeft(next_token(stmt.p)) < TokensLeft(q)
    /\ stmt.p.current_token = EOF => Failed(stmt)

\* While parse_program runs, what it has produced and the tokens left are
\* together no more than the tokens of the source, and a statement parsed
\* at any token left consumes; when it has returned, the current token is EOF.
ParseProgress ==
    /\ pc = "parse"
          => /\ Len(program) + Len(errors) + TokensLeft(parser)
                    <= TokensLeft(ParserNew(LexerNew(FileText(file))))
             /\ \A q \in Positions(parser) :
                    (q.current_token # EOF => StatementConsumes(q, parse_statement(q)))
    /\ pc = "interpret" => parser.current_token = EOF

\* C19: parse_program makes at most as many iterations as the source has
\* tokens: each iteration of its loop leaves fewer tokens than it found, and
\* so does a parse_statement and next_token made at any token of the source,
\* as an iteration of a for body is; a statement that runs into EOF, an
\* unterminated for among them, is a syntax error; parse_program returns
\* with EOF as the current token.
C19_ParseProgramTerminates ==
    /\ []ParseProgress
    /\ [][pc = "parse" /\ parser.current_token # EOF /\ pc' = "parse"
           => TokensLeft(parser') < TokensLeft(parser)]_vars

\* The for without its end was parsed to one syntax error, at EOF.
C19_Witness ==
    /\ file = <<<<"v", "a", "r", " ", "x", " ", ":", " ", "i", "n", "t", ";">>,
                <<"f", "o", "r", " ", "x", " ", "i", "n", " ", "1", ".", ".", "2", " ", "d", "o">>,
                <<"p", "r", "i", "n", "t", " ", "x", ";">>>>
    /\ pc = "interpret"
    /\ parser.current_token = EOF
    /\ errors = <<<<"UnexpectedToken", EOF>>>>
    /\ program = << <<"VarInitialization", <<"x">>, "Integer">> >>

(***************************************************************************)
(* VarInit on an existing name, checked under Spec.                        *)
(***************************************************************************)
\* C21: a VarInit (NewAssignment) on a name already in the environment,
\* whose expression evaluates to a value of the declared type, fails with
\* VariableAlreadyInitialized(name) and leaves the environment as it was;
\* no VarInit, failing or not, changes the entry of a name that exists.
C21_VarInitExistingFails ==
    [][Evaluated("NewAssignment") /\ Stmt[2] \in DOMAIN global_scope
       => /\ global_scope'[Stmt[2]] = global_scope[Stmt[2]]
          /\ ValueOf(Stmt[4])[1] = "Ok" /\ ValueOf(Stmt[4])[2][1] = TagOf(Stmt[3])
                => /\ last' = Err(VariableAlreadyInitialized(Stmt[2]))
                   /\ result' = Err(VariableAlreadyInitialized(Stmt[2]))
                   /\ UNCHANGED <<global_scope, stdout>>]_vars

\* var x : int; var y : bool := 1 < 2; var y : string := "a"; failed on y,
\* which is still the Boolean true.
C21_Witness ==
    /\ program = << <<"VarInitialization", <<"x">>, "Integer">>,
                    <<"NewAssignment", <<"y">>, "Boolean",
                      Binary(IntLit(1), "LessThan", IntLit(2))>>,
                    <<"NewAssignment", <<"y">>, "String", StrLit(<<"a">>)>> >>
    /\ executed = 3
    /\ result = Err(VariableAlreadyInitialized(<<"y">>))
    /\ global_scope[<<"y">>] = <<"Boolean", Some(<<"Bool", TRUE>>)>>

====
